---- MODULE Spec2Model ----
(***************************************************************************)
(* A model of the orb data-access gateway: the permission evaluator and    *)
(* query router (services/query_router.py), the cache-aside authentication *)
(* and token issuance (services/authn.py) and the user-management and CRUD *)
(* operations on the document store (services/operations.py).              *)
(*                                                                         *)
(* Every store call (Redis or Mongo) of an operation is one atomic step of *)
(* the request that runs it; the purely local computation between two      *)
(* store calls is folded into the step of the store call that precedes it. *)
(***************************************************************************)
EXTENDS Integers, Sequences, FiniteSets, TLC

\* ------------------------------------------------------------------ bounds
\* concurrently running requests
NumProcs == 2
\* create_user calls that draw a fresh ObjectId and a fresh API key
MaxCreates == 2
\* tokens handed out per user id
MaxTokens == 1
\* documents held by the data store
MaxDocs == 1

Procs == 1..NumProcs

\* ------------------------------------------------------------ value domains
Users == {"root", "alice"}
DBs == {"sales", "hr"}
Colls == {"orders", "invoices"}
\* the collections the data client can name: those of the policies and, on
\* its own server, a database "userdb" with a collection "users"
DataTargets == (DBs \X Colls) \cup {<<"userdb", "users">>}
\* the documents of the data store, told apart by their content
DocValues == {"x", "y"}

\* Python values of a permission axis: a missing key / None, a str, a bool or a
\* dict {db: [collections]}.  One record shape for all of them.
EmptyMap == [d \in {} |-> {}]
Absent == [kind |-> "absent", s |-> "", b |-> FALSE, map |-> EmptyMap]
Str(x) == [kind |-> "str", s |-> x, b |-> FALSE, map |-> EmptyMap]
Bool(x) == [kind |-> "bool", s |-> "", b |-> x, map |-> EmptyMap]
Dict(m) == [kind |-> "dict", s |-> "", b |-> FALSE, map |-> m]

\* Python truthiness of such a value (`if v:`, `not v`)
Truthy(v) ==
    CASE v.kind = "absent" -> FALSE
      [] v.kind = "str" -> v.s # ""
      [] v.kind = "bool" -> v.b
      [] v.kind = "dict" -> DOMAIN v.map # {}

\* dict.get(key, [])
GetList(m, key) == IF key \in DOMAIN m THEN m[key] ELSE {}

\* every {db: [collections]} mapping over the model's databases and collections
Maps == UNION {[D -> SUBSET Colls] : D \in SUBSET DBs}

\* the permissions document: the three axes; a key that is not set is Absent
Permissions(r, w, um) == [read |-> r, write |-> w, user_management |-> um]
NoPermissions == Permissions(Absent, Absent, Absent)

\* the argument None where a permissions dict is expected: no dict at all
PyNone == [kind |-> "none", s |-> "", b |-> FALSE, map |-> EmptyMap]
NonePermissions == Permissions(PyNone, PyNone, PyNone)

\* `not permissions`: None or the empty dict
PermissionsEmpty(perms) ==
    \/ perms = NonePermissions
    \/ perms.read.kind = "absent" /\ perms.write.kind = "absent"
            /\ perms.user_management.kind = "absent"

\* the claims of a token (TokenData)
Claims(uid, role, name, dept, perms) ==
    [user_id |-> uid, role |-> role, metadata |-> [name |-> name, dept |-> dept],
     permissions |-> perms]
NoClaims == Claims("", "", "", "", NoPermissions)

\* --------------------------------------------------------------- exceptions
\* services/exceptions.py: the class of an outcome and the message that tells
\* two raises of the same class apart
Result(kind, msg) == [kind |-> kind, msg |-> msg]
Ok == Result("ok", "")
NoResult == Result("", "")

\* the parent class of each exception class
BaseOf(kind) ==
    CASE kind = "ExplicitDenyError" -> "AuthorizationError"
      [] kind = "AuthorizationError" -> "OrbError"
      [] kind = "AuthenticationError" -> "OrbError"
      [] kind = "DocumentNotFoundError" -> "DatabaseError"
      [] kind = "DuplicateUserError" -> "DatabaseError"
      [] kind = "PolicyNotFoundError" -> "DatabaseError"
      [] kind = "DatabaseError" -> "OrbError"
      [] OTHER -> "Exception"

\* isinstance(e, cls), as an `except cls` clause decides it
RECURSIVE IsInstance(_, _)
IsInstance(kind, cls) ==
    IF kind = cls THEN TRUE
    ELSE IF kind \in {"Exception", "ok", ""} THEN FALSE
    ELSE IsInstance(BaseOf(kind), cls)

\* ------------------------------------------------------------------- state
VARIABLES
    users,      \* userdb.users: the User Records of the durable store
    cache,      \* Redis: user_id -> hash of credential fields, or no key
    data,       \* the data store: (db, coll) -> documents
    nonce,      \* create_user calls that drew an ObjectId and an API key so far
    tokens,     \* claims of the tokens issued so far
    procs,      \* the requests in flight: operation, position and locals
    lifecycle,  \* per user id: what has happened to its record since start-up
    probe,      \* history: one earlier decision of the evaluator, kept to compare
    evalIn,     \* the evaluator called on its own: its arguments
    evalOut,    \* ... and its outcome
    now,        \* the server's clock, in ticks
    jwts,       \* the signed tokens issued so far, as sent to the clients
    authz,      \* the last call of authorize_user: its argument, time and outcome
    log_context \* per request: request.state.log_context, the slot the logger reads

evalVars == <<evalIn, evalOut>>
storeVars == <<users, cache, data, nonce, tokens>>
ghostVars == <<lifecycle, probe>>
tokenVars == <<now, jwts, authz>>
vars == <<users, cache, data, nonce, tokens, procs, lifecycle, probe, evalIn, evalOut,
          now, jwts, authz, log_context>>

\* ------------------------------------------------------ permission evaluator
UserOpNames == {"create_user", "update_user", "delete_user"}
ReadOpNames == {"find_one", "find", "count_documents"}
WriteOpNames == {"insert_one", "insert_many", "update_one", "update_many",
                 "delete_one", "delete_many"}
DataOpNames == ReadOpNames \cup WriteOpNames

\* the table op_type_map of _validate_auth
op_type_map ==
    [read |-> ReadOpNames, write |-> WriteOpNames, user_management |-> UserOpNames]

\* a search of the table that takes the delete operations for reads
OpTypeDeleteAsRead(op_name) ==
    IF op_name \in ReadOpNames \cup {"delete_one", "delete_many"} THEN "read"
    ELSE IF op_name \in WriteOpNames THEN "write"
    ELSE IF op_name \in UserOpNames THEN "user_management"
    ELSE ""
\* op_type_map, searched in its insertion order: read, write, user_management
OpType(op_name) ==
    IF op_name \in ReadOpNames THEN "read"
    ELSE IF op_name \in WriteOpNames THEN "write"
    ELSE IF op_name \in UserOpNames THEN "user_management"
    ELSE ""

\* a lookup that answers user management from the write grant
AllowedManagementFromWrite(perms, op_type) ==
    CASE op_type = "read" -> perms.read
      [] op_type = "write" -> perms.write
      [] op_type = "user_management" -> perms.write
      [] OTHER -> Absent
\* permissions.get(op_type)
Allowed(perms, op_type) ==
    CASE op_type = "read" -> perms.read
      [] op_type = "write" -> perms.write
      [] op_type = "user_management" -> perms.user_management
      [] OTHER -> Absent

\* is_authorized with the database forgotten: the collection is looked up in
\* the lists of all the databases of the mapping
IsAuthorizedAnyDb(op_type, allowed, db, coll) ==
    IF op_type = "user_management" /\ Truthy(allowed) THEN TRUE
    ELSE IF op_type \in {"read", "write"}
    THEN IF allowed = Str("all") THEN TRUE
         ELSE allowed.kind = "dict" /\
              \E d \in DOMAIN allowed.map : coll \in allowed.map[d]
    ELSE FALSE
\* is_authorized at the end of _validate_auth
IsAuthorized(op_type, allowed, db, coll) ==
    IF op_type = "user_management" /\ Truthy(allowed) THEN TRUE
    ELSE IF op_type \in {"read", "write"}
    THEN IF allowed = Str("all") THEN TRUE
         ELSE allowed.kind = "dict" /\ coll \in GetList(allowed.map, db)
    ELSE FALSE

\* _validate_auth deciding on the grants of the caller's record as the durable
\* store holds them now, and refusing a caller whose record is gone
ValidateAuthFromStore(op_name, db, coll, user_info) ==
    LET op_type == OpType(op_name)
        docs == {d \in users : d.user_id = user_info.user_id}
        permissions == IF docs = {} THEN NoPermissions
                       ELSE LET d == CHOOSE d \in docs : TRUE
                            IN  Permissions(d.read, d.write, d.user_management)
        allowed == Allowed(permissions, op_type)
    IN  IF op_type = "" THEN Result("AuthorizationError", "not valid")
        ELSE IF PermissionsEmpty(permissions)
        THEN Result("AuthorizationError", "no permissions defined")
        ELSE IF op_type \in {"read", "write"} /\ allowed = Str("none")
        THEN Result("ExplicitDenyError", "explicitly denied by policy")
        ELSE IF IsAuthorized(op_type, allowed, db, coll) THEN Ok
        ELSE Result("AuthorizationError", "not authorized")
\* _validate_auth without its branch for "none": the literal falls through to
\* the final check and is refused like any other value
ValidateAuthNoExplicitDeny(op_name, db, coll, user_info) ==
    LET op_type == OpType(op_name)
        permissions == user_info.permissions
        allowed == Allowed(permissions, op_type)
    IN  IF op_type = "" THEN Result("AuthorizationError", "not valid")
        ELSE IF PermissionsEmpty(permissions)
        THEN Result("AuthorizationError", "no permissions defined")
        ELSE IF IsAuthorized(op_type, allowed, db, coll) THEN Ok
        ELSE Result("AuthorizationError", "not authorized")
ValidateAuth(op_name, db, coll, user_info) ==
    LET op_type == OpType(op_name)
        permissions == user_info.permissions
        allowed == Allowed(permissions, op_type)
    IN  IF op_type = "" THEN Result("AuthorizationError", "not valid")
        ELSE IF PermissionsEmpty(permissions)
        THEN Result("AuthorizationError", "no permissions defined")
        ELSE IF op_type \in {"read", "write"} /\ allowed = Str("none")
        THEN Result("ExplicitDenyError", "explicitly denied by policy")
        ELSE IF IsAuthorized(op_type, allowed, db, coll) THEN Ok
        ELSE Result("AuthorizationError", "not authorized")

\* ------------------------------------------------- the evaluator on its own
GrantValues == {Absent, Str("all"), Str("none")} \cup {Dict(m) : m \in Maps}
ManagementValues == {Absent, Bool(TRUE), Bool(FALSE)}
EvalOpNames == UserOpNames \cup DataOpNames \cup {"", "drop"}

EvalArgs(op_name, db, coll, user_info) ==
    [op_name |-> op_name, db |-> db, coll |-> coll, user_info |-> user_info]
NoEvalArgs == EvalArgs("", "", "", NoClaims)

\* one call of _validate_auth on arguments of the router's types
Evaluate ==
    /\ evalOut = NoResult
    /\ \E op_name \in EvalOpNames, db \in DBs, coll \in Colls,
          r \in GrantValues, w \in GrantValues, um \in ManagementValues :
          LET user_info == Claims("alice", "analyst", "A", "D", Permissions(r, w, um))
          IN  /\ evalIn' = EvalArgs(op_name, db, coll, user_info)
              /\ evalOut' = ValidateAuth(op_name, db, coll, user_info)
    /\ UNCHANGED <<users, cache, data, nonce, tokens, procs, lifecycle, probe,
                   tokenVars, log_context>>

\* ------------------------------------------------------- values of the stores
\* bcrypt.hashpw(key, gensalt()): the hash bytes; NoHash is Python's None
Hashpw(api_key) == [some |-> TRUE, bcrypt |-> api_key]
NoHash == [some |-> FALSE, bcrypt |-> 0]

\* a check that accepts every key once a hash is there
verify_key_any(plain, hashed) == hashed.some
\* utils.verify_key: bcrypt.checkpw(plain, hashed)
verify_key(plain, hashed) == hashed.some /\ hashed = Hashpw(plain)

\* API keys are numbered; the empty string is number 0 (`not api_key`)
KeyEmpty(api_key) == api_key = 0
\* secrets.token_urlsafe(32) and ObjectId() of the n-th draw: fresh values
TokenUrlsafe(n) == n + 1
NewObjectId(n) == n
\* str(ObjectId) and ObjectId(str)
StrOfObjectId(oid) == ToString(oid)
ObjectId(hex) == CHOOSE n \in 0..(MaxCreates + 1) : ToString(n) = hex

\* Redis keeps every field value as bytes: str.encode / bytes.decode('utf-8')
Bytes(str) == [utf8 |-> str]
Decode(bytes) == bytes.utf8

\* a Redis key holding a hash of the five credential fields; NoKey: no such key
\* (hgetall of it is the empty dict, so every field reads as its default)
NoKey ==
    [exists |-> FALSE, api_key_hash |-> NoHash, role_id |-> Bytes(""),
     role |-> Bytes(""), name |-> Bytes(""), dept |-> Bytes("")]
\* redis hset(key, mapping=...)
HSet(mapping) ==
    [exists |-> TRUE, api_key_hash |-> mapping.api_key_hash,
     role_id |-> Bytes(mapping.role_id), role |-> Bytes(mapping.role),
     name |-> Bytes(mapping.name), dept |-> Bytes(mapping.dept)]

\* user_data of authenticate_user; src tells which tier served it
UserData(src, hash, role_id, role, name, dept) ==
    [src |-> src, api_key_hash |-> hash, role_id |-> role_id, role |-> role,
     name |-> name, dept |-> dept]
NoUserData == UserData("", NoHash, "", "", "", "")

\* user_data built from hgetall's raw_data
UserDataFromRedis(raw_data) ==
    UserData("cache", raw_data.api_key_hash, Decode(raw_data.role_id),
             Decode(raw_data.role), Decode(raw_data.name), Decode(raw_data.dept))
\* user_data built from the Mongo document with the name taken for the
\* department as well
UserDataFromMongoNameAsDept(mongo_user) ==
    UserData("mongo", mongo_user.api_key_hash, StrOfObjectId(mongo_user._id),
             mongo_user.role, mongo_user.metadata.name, mongo_user.metadata.name)
\* user_data built from the Mongo document
UserDataFromMongo(mongo_user) ==
    UserData("mongo", mongo_user.api_key_hash, StrOfObjectId(mongo_user._id),
             mongo_user.role, mongo_user.metadata.name,
             mongo_user.metadata.department)
\* redis_mapping of the self-heal write
RedisMapping(user_data) ==
    [api_key_hash |-> user_data.api_key_hash, role_id |-> user_data.role_id,
     role |-> user_data.role, name |-> user_data.name, dept |-> user_data.dept]

\* a User Record of userdb.users
UserDoc(oid, user_id, hash, metadata, role, r, w, um) ==
    [_id |-> oid, user_id |-> user_id, api_key_hash |-> hash,
     metadata |-> metadata, role |-> role, read |-> r, write |-> w,
     user_management |-> um]
NoDoc == UserDoc(0, "", NoHash, [name |-> "", department |-> ""], "",
                 Absent, Absent, Absent)

\* the mapping create_user writes to the cache
CreateMapping(doc) ==
    [api_key_hash |-> doc.api_key_hash, role_id |-> StrOfObjectId(doc._id),
     role |-> doc.role, name |-> doc.metadata.name,
     dept |-> doc.metadata.department]

\* a projection that leaves the write axis out
ProjectPermissionsNoWrite(doc) == Permissions(doc.read, Absent, doc.user_management)
\* find_one's projection {"_id": 0, "read": 1, "write": 1, "user_management": 1}
ProjectPermissions(doc) == Permissions(doc.read, doc.write, doc.user_management)

\* userdb.policy_store: the known policy names
policy_store == {"admin", "analyst"}

\* the documents of userdb.users matching {"user_id": user_id} / {"_id": oid}
FindByUserId(user_id) == {d \in users : d.user_id = user_id}
FindById(oid) == {d \in users : d._id = oid}

\* the record seeded at installation: the first administrator
RootDoc ==
    UserDoc(NewObjectId(0), "root", Hashpw(TokenUrlsafe(0)),
            [name |-> "Root", department |-> "ops"], "admin",
            Str("all"), Str("all"), Bool(TRUE))

\* ------------------------------------------------------------- the tokens
\* settings.SERVER_SECRET, and a key the server does not hold
SERVER_SECRET == "server-secret"
OtherSecret == "other-secret"

\* json.dumps / json.loads of a grant: a JSON string, boolean or object of arrays
JsonOfValue(v) ==
    CASE v.kind = "str" -> [type |-> "string", str |-> v.s, bool |-> FALSE,
                            members |-> EmptyMap]
      [] v.kind = "bool" -> [type |-> "boolean", str |-> "", bool |-> v.b,
                             members |-> EmptyMap]
      [] v.kind = "dict" -> [type |-> "object", str |-> "", bool |-> FALSE,
                             members |-> v.map]
ValueOfJson(j) ==
    CASE j.type = "string" -> Str(j.str)
      [] j.type = "boolean" -> Bool(j.bool)
      [] j.type = "object" -> Dict(j.members)
\* the permissions dict as a JSON object: a member for every key it has
AxisNames == {"read", "write", "user_management"}
JsonOfPermissions(permissions) ==
    [k \in {a \in AxisNames : permissions[a].kind # "absent"} |->
        JsonOfValue(permissions[k])]
\* a json.loads that loses the booleans
PermissionsOfJsonNoBool(object) ==
    [a \in AxisNames |->
        IF a \in DOMAIN object /\ object[a].type # "boolean"
        THEN ValueOfJson(object[a]) ELSE Absent]
PermissionsOfJson(object) ==
    [a \in AxisNames |->
        IF a \in DOMAIN object THEN ValueOfJson(object[a]) ELSE Absent]

\* the payload dict of _create_jwt and of jwt.decode: the claims and exp, a
\* datetime before encoding and a NumericDate after, both in ticks here
JwtPayload(claims, exp) ==
    [user_id |-> claims.user_id, role |-> claims.role,
     metadata |-> claims.metadata, permissions |-> claims.permissions,
     exp |-> exp]
ClaimsOf(payload) ==
    Claims(payload.user_id, payload.role, payload.metadata.name,
           payload.metadata.dept, payload.permissions)

\* jwt.encode(payload, key, algorithm="HS256"): header, JSON body and the MAC
\* of both under the key (an ideal MAC: it names what was signed and the key)
JsonBody(payload) ==
    [user_id |-> payload.user_id, role |-> payload.role,
     metadata |-> payload.metadata,
     permissions |-> JsonOfPermissions(payload.permissions), exp |-> payload.exp]
PayloadOfBody(body) ==
    [user_id |-> body.user_id, role |-> body.role, metadata |-> body.metadata,
     permissions |-> PermissionsOfJson(body.permissions), exp |-> body.exp]
HmacSha256(alg, body, key) == [alg |-> alg, body |-> body, key |-> key]
JwtEncode(payload, key) ==
    [alg |-> "HS256", body |-> JsonBody(payload),
     sig |-> HmacSha256("HS256", JsonBody(payload), key)]
\* a string that is no token: not three segments
Malformed ==
    [alg |-> "", body |-> JsonBody(JwtPayload(NoClaims, 0)),
     sig |-> HmacSha256("", JsonBody(JwtPayload(NoClaims, 0)), "")]

\* the validity window of a token, timedelta(hours=2), in ticks
Hour == 2
TokenLifetime == 2 * Hour
MaxTime == 6

\* what authorize_user gives: the payload, or the error it raised
Verdict(result, payload) == [result |-> result, payload |-> payload]
NoPayload == JwtPayload(NoClaims, 0)

\* an authorize_user that does not look at exp
AuthorizeUserNoExpiry(jwt_token, at) ==
    IF jwt_token.alg # "HS256"
           \/ jwt_token.sig # HmacSha256("HS256", jwt_token.body, SERVER_SECRET)
    THEN Verdict(Result("AuthenticationError", "Token is invalid"), NoPayload)
    ELSE Verdict(Ok, PayloadOfBody(jwt_token.body))
\* Auth.authorize_user at time `at`: jwt.decode with verify_exp checks the
\* form, the signature and then exp; ExpiredSignatureError is caught first
AuthorizeUser(jwt_token, at) ==
    IF jwt_token.alg # "HS256"
    THEN Verdict(Result("AuthenticationError", "Token is invalid"), NoPayload)
    ELSE IF jwt_token.sig # HmacSha256("HS256", jwt_token.body, SERVER_SECRET)
    THEN Verdict(Result("AuthenticationError", "Token is invalid"), NoPayload)
    ELSE IF jwt_token.body.exp <= at
    THEN Verdict(Result("AuthenticationError", "Token has expired."), NoPayload)
    ELSE Verdict(Ok, PayloadOfBody(jwt_token.body))

\* the record of a call of authorize_user
Authz(jwt_token, at, verdict) ==
    [jwt_token |-> jwt_token, at |-> at, verdict |-> verdict]
NoAuthz == Authz(Malformed, 0, Verdict(NoResult, NoPayload))

\* ------------------------------------------------------------------ requests
\* `updates` of update_user: the fields of its $set document
Updates(role, um, r, w) ==
    [role |-> role, user_management |-> um, read |-> r, write |-> w]
NoUpdates == Updates(Absent, Absent, Absent, Absent)

\* what the evaluator was asked and what it answered: the operation category,
\* the target, the grant of that category in the claims, the class of the outcome
Decision(cat, db, coll, grant, outcome) ==
    [cat |-> cat, db |-> db, coll |-> coll, grant |-> grant, outcome |-> outcome]
NoDecision == Decision("", "", "", Absent, "")

IdleProc ==
    [pc |-> "idle", op |-> "", user_id |-> "", api_key |-> 0, policy |-> "",
     metadata |-> [name |-> "", department |-> ""], perm |-> NoPermissions,
     info |-> NoClaims, db |-> "", coll |-> "", query |-> "", update |-> "",
     user_data |-> NoUserData, doc |-> NoDoc, updates |-> NoUpdates,
     decision |-> NoDecision, wrote |-> "", removed |-> 0,
     result |-> NoResult, ret |-> NoClaims]

\* a request that returned or raised: what the caller sent and sees is kept
\* (api_key: the key sent to authenticate_user, or returned by create_user),
\* with the tier that served the credentials, the evaluator's decision and
\* what the call did to the durable store (wrote: "inserted" / "deleted");
\* removed is the reply of redis delete: the number of keys it removed
\* and updates, after update_user, is the $set document the call has written
Done(op, user_id, result, ret, api_key) ==
    [IdleProc EXCEPT !.pc = "done", !.op = op, !.user_id = user_id,
                     !.result = result, !.ret = ret, !.api_key = api_key]
Returned(me, src, result, ret, api_key) ==
    [Done(me.op, me.user_id, result, ret, api_key) EXCEPT
        !.decision = me.decision, !.wrote = me.wrote,
        !.user_data = [NoUserData EXCEPT !.src = src]]
RaiseFrom(self, src, kind, msg) ==
    Returned(procs[self], src, Result(kind, msg), NoClaims,
             IF procs[self].op = "authenticate_user" THEN procs[self].api_key ELSE 0)
Raise(self, kind, msg) == RaiseFrom(self, procs[self].user_data.src, kind, msg)

\* request.state without the attribute log_context, the empty dict that
\* LoggingMiddleware puts there, and the assignment to its "action" key
NoLogContext == [has |-> FALSE, action |-> ""]
EmptyLogContext == [has |-> TRUE, action |-> ""]
SetAction(ctx, op_name) ==
    IF ctx.has THEN [ctx EXCEPT !.action = op_name] ELSE ctx

Free(self) == procs[self].pc \in {"idle", "done"}
At(self, op, pc) == procs[self].op = op /\ procs[self].pc = pc

Init ==
    /\ users = {RootDoc}
    /\ cache = [u \in Users |-> NoKey]
    /\ data = [t \in DataTargets |-> [v \in DocValues |-> 0]]
    /\ nonce = 0
    /\ tokens = {}
    /\ procs = [p \in Procs |-> IdleProc]
    /\ lifecycle = [u \in Users |-> "pristine"]
    /\ probe = NoDecision
    /\ evalIn = NoEvalArgs
    /\ evalOut = NoResult
    /\ now = 0
    /\ jwts = {}
    /\ authz = NoAuthz
    /\ log_context = [p \in Procs |-> NoLogContext]

\* -------------------------------------------------- Auth.authenticate_user
\* _create_jwt: the payload of the token, from the bytes-keyed user_info
CreateJwt(user_id, user_info, permissions) ==
    Claims(user_id, Decode(user_info.role), Decode(user_info.name),
           Decode(user_info.dept), permissions)

\* user_info_for_jwt
UserInfoForJwt(user_data) ==
    [role |-> Bytes(user_data.role), name |-> Bytes(user_data.name),
     dept |-> Bytes(user_data.dept)]

\* steps 4 and the head of 5, which touch no store: where the request stands
\* once user_data is resolved
AfterResolve(self, user_data) ==
    IF ~user_data.api_key_hash.some
    THEN RaiseFrom(self, user_data.src, "AuthenticationError",
                   "corrupted data (missing key hash)")
    ELSE IF ~verify_key(procs[self].api_key, user_data.api_key_hash)
    THEN RaiseFrom(self, user_data.src, "AuthenticationError",
                   "Invalid API key provided")
    ELSE IF user_data.role_id = ""
    THEN RaiseFrom(self, user_data.src, "AuthenticationError",
                   "no role ID assigned")
    ELSE [procs[self] EXCEPT !.pc = "mongo_find_perms", !.user_data = user_data]

\* the call arrives; `if not api_key`
AuthStart(self, user_id, api_key) ==
    /\ Free(self)
    /\ Cardinality({t \in tokens : t.user_id = user_id}) < MaxTokens
    /\ procs' = [procs EXCEPT ![self] =
          IF KeyEmpty(api_key)
          THEN Done("authenticate_user", user_id,
                    Result("AuthenticationError", "API key was not provided"),
                    NoClaims, api_key)
          ELSE [IdleProc EXCEPT !.pc = "redis_exists", !.op = "authenticate_user",
                                !.user_id = user_id, !.api_key = api_key]]
    /\ UNCHANGED <<storeVars, ghostVars, evalVars, tokenVars, log_context>>

\* the lookup going to the durable store whatever the cache holds
AuthRedisExistsAlwaysMiss(self) ==
    /\ At(self, "authenticate_user", "redis_exists")
    /\ procs' = [procs EXCEPT ![self].pc = "mongo_find_user"]
    /\ UNCHANGED <<storeVars, ghostVars, evalVars, tokenVars, log_context>>

\* 1. redis_client.exists(user_id)
AuthRedisExists(self) ==
    /\ At(self, "authenticate_user", "redis_exists")
    /\ procs' = [procs EXCEPT ![self].pc =
          IF cache[procs[self].user_id].exists THEN "redis_hgetall"
          ELSE "mongo_find_user"]
    /\ UNCHANGED <<storeVars, ghostVars, evalVars, tokenVars, log_context>>

\* redis_client.hgetall(user_id) and the conversion of its bytes
AuthRedisHGetAll(self) ==
    /\ At(self, "authenticate_user", "redis_hgetall")
    /\ LET raw_data == cache[procs[self].user_id]
       IN  procs' = [procs EXCEPT ![self] =
                        AfterResolve(self, UserDataFromRedis(raw_data))]
    /\ UNCHANGED <<storeVars, ghostVars, evalVars, tokenVars, log_context>>

\* the lookup caching its miss: an entry without fields is written for a user
\* the durable store does not know
AuthMongoFindUserCachesMiss(self) ==
    /\ At(self, "authenticate_user", "mongo_find_user")
    /\ LET found == FindByUserId(procs[self].user_id)
       IN  IF found = {}
           THEN /\ procs' = [procs EXCEPT ![self] =
                      Raise(self, "AuthenticationError", "User not found")]
                /\ cache' = [cache EXCEPT ![procs[self].user_id] =
                                HSet(RedisMapping(NoUserData))]
           ELSE /\ \E mongo_user \in found :
                      procs' = [procs EXCEPT ![self].pc = "redis_hset",
                                             ![self].user_data =
                                                 UserDataFromMongo(mongo_user)]
                /\ UNCHANGED cache
    /\ UNCHANGED <<users, data, nonce, tokens, ghostVars, evalVars, tokenVars, log_context>>

\* 2. userdb.users.find_one({"user_id": user_id})
AuthMongoFindUser(self) ==
    /\ At(self, "authenticate_user", "mongo_find_user")
    /\ LET found == FindByUserId(procs[self].user_id)
       IN  IF found = {}
           THEN procs' = [procs EXCEPT ![self] =
                    Raise(self, "AuthenticationError", "User not found")]
           ELSE \E mongo_user \in found :
                    procs' = [procs EXCEPT ![self].pc = "redis_hset",
                                           ![self].user_data =
                                               UserDataFromMongo(mongo_user)]
    /\ UNCHANGED <<storeVars, ghostVars, evalVars, tokenVars, log_context>>

\* a self-heal write that loses the role id
SelfHealNoRoleId(user_data) ==
    HSet([RedisMapping(user_data) EXCEPT !.role_id = ""])
\* 3. the self-heal write redis_client.hset(user_id, mapping=redis_mapping)
SelfHeal(user_data) == HSet(RedisMapping(user_data))

AuthRedisHSet(self) ==
    /\ At(self, "authenticate_user", "redis_hset")
    /\ cache' = [cache EXCEPT ![procs[self].user_id] =
                    SelfHeal(procs[self].user_data)]
    /\ procs' = [procs EXCEPT ![self] = AfterResolve(self, procs[self].user_data)]
    /\ UNCHANGED <<users, data, nonce, tokens, ghostVars, evalVars, tokenVars, log_context>>

\* a permission query that falls back to read-only grants when no record has
\* the role id
PermissionSourceOrDefault(role_id) ==
    IF FindById(ObjectId(role_id)) = {}
    THEN {[NoDoc EXCEPT !.read = Str("all")]}
    ELSE FindById(ObjectId(role_id))
\* the documents the permission query {"_id": ObjectId(role_id)} matches
PermissionSource(role_id) == FindById(ObjectId(role_id))

\* 5. the permissions, always from Mongo, and the token
AuthMongoFindPerms(self) ==
    /\ At(self, "authenticate_user", "mongo_find_perms")
    /\ LET me == procs[self]
           found == PermissionSource(me.user_data.role_id)
       IN  IF found = {}
           THEN /\ procs' = [procs EXCEPT ![self] =
                      Raise(self, "AuthenticationError", "Could not find permissions")]
                /\ UNCHANGED <<tokens, jwts>>
           ELSE \E doc \in found :
                  LET permissions == ProjectPermissions(doc)
                      token == CreateJwt(me.user_id, UserInfoForJwt(me.user_data),
                                         permissions)
                  IN  IF PermissionsEmpty(permissions)
                      THEN /\ procs' = [procs EXCEPT ![self] =
                                 Raise(self, "AuthenticationError",
                                       "Could not find permissions")]
                           /\ UNCHANGED <<tokens, jwts>>
                      ELSE /\ procs' = [procs EXCEPT ![self] =
                                 Returned(me, me.user_data.src, Ok, token,
                                          me.api_key)]
                           /\ tokens' = tokens \cup {token}
                           /\ jwts' = jwts \cup
                                 {JwtEncode(JwtPayload(token, now + TokenLifetime),
                                            SERVER_SECRET)}
    /\ UNCHANGED <<users, cache, data, nonce, ghostVars, evalVars, now, authz,
                   log_context>>

\* ---------------------------------------- authenticate_user: a store fails
\* find_one raises PyMongoError (the durable store cannot be reached); the
\* except clause turns it into DatabaseError
AuthMongoFindUserFails(self) ==
    /\ At(self, "authenticate_user", "mongo_find_user")
    /\ procs' = [procs EXCEPT ![self] =
          Raise(self, "DatabaseError", "Authentication failed due to database error")]
    /\ UNCHANGED <<storeVars, ghostVars, evalVars, tokenVars, log_context>>

\* the self-heal hset raises a Redis error: `except errors.PyMongoError` does
\* not catch it and it leaves authenticate_user as it is
AuthRedisHSetFails(self) ==
    /\ At(self, "authenticate_user", "redis_hset")
    /\ procs' = [procs EXCEPT ![self] =
          Raise(self, "RedisError", "hset failed")]
    /\ UNCHANGED <<storeVars, ghostVars, evalVars, tokenVars, log_context>>

\* the permission find_one raises PyMongoError
AuthMongoFindPermsFails(self) ==
    /\ At(self, "authenticate_user", "mongo_find_perms")
    /\ procs' = [procs EXCEPT ![self] =
          Raise(self, "DatabaseError", "Failed to fetch permissions")]
    /\ UNCHANGED <<storeVars, ghostVars, evalVars, tokenVars, log_context>>

\* the number of documents in the data store
RECURSIVE SumOver(_, _)
SumOver(f, S) ==
    IF S = {} THEN 0
    ELSE LET x == CHOOSE y \in S : TRUE IN f[x] + SumOver(f, S \ {x})
CollCount(t) == SumOver(data[t], DocValues)
DocCount == SumOver([t \in DataTargets |-> CollCount(t)], DataTargets)

\* ------------------------------------------------- QueryRouter.route_query
\* a payload of a user-management operation and one of a data operation
Payload(op, info, db, coll, user_id, policy, metadata, perm) ==
    [op |-> op, info |-> info, db |-> db, coll |-> coll, user_id |-> user_id,
     policy |-> policy, metadata |-> metadata, perm |-> perm,
     query |-> "", update |-> ""]
DataPayload(op, info, db, coll, query, update) ==
    [op |-> op, info |-> info, db |-> db, coll |-> coll, user_id |-> "",
     policy |-> "", metadata |-> [name |-> "", department |-> ""],
     perm |-> NoPermissions, query |-> query, update |-> update]

\* the first store call of each Data Operations Layer method
FirstPc(op_name) ==
    CASE op_name = "create_user" -> "find_policy"
      [] op_name = "delete_user" -> "delete_one"
      [] op_name = "update_user" -> "find_user"
      [] OTHER -> "data_call"

\* the request as the dispatched method receives it
Dispatched(payload, db, coll, decision) ==
    [IdleProc EXCEPT !.pc = FirstPc(payload.op), !.op = payload.op,
                     !.info = payload.info, !.db = db, !.coll = coll,
                     !.user_id = payload.user_id, !.policy = payload.policy,
                     !.metadata = payload.metadata, !.perm = payload.perm,
                     !.query = payload.query, !.update = payload.update,
                     !.decision = decision]

\* the call of _validate_auth and what follows from its outcome
Authorize(payload, db, coll) ==
    LET auth == ValidateAuth(payload.op, db, coll, payload.info)
        op_type == OpType(payload.op)
        decision == Decision(op_type, db, coll,
                             Allowed(payload.info.permissions, op_type), auth.kind)
    IN  IF auth = Ok THEN Dispatched(payload, db, coll, decision)
        ELSE [Done(payload.op, payload.user_id, auth, NoClaims, 0) EXCEPT
                 !.decision = decision]

\* route_query calling the operation without asking the evaluator
RouteOutcomeUnchecked(payload) ==
    LET op_name == payload.op
        failed(kind, msg) == Done(op_name, payload.user_id, Result(kind, msg),
                                  NoClaims, 0)
    IN  IF op_name = ""
        THEN failed("ValueError", "Operation 'op' not specified in payload")
        ELSE IF payload.info = NoClaims
        THEN failed("ValueError", "User info must be provided for authorization")
        ELSE IF op_name \in UserOpNames
        THEN Dispatched(payload, "userdb", "users", NoDecision)
        ELSE IF op_name \in DataOpNames
        THEN IF payload.db = "" \/ payload.coll = ""
             THEN failed("ValueError", "Database and collection must be specified")
             ELSE Dispatched(payload, payload.db, payload.coll, NoDecision)
        ELSE failed("ValueError", "Operation is not supported")

\* route_query asking the evaluator about whatever target the payload names
RouteOutcomeNoTargetCheck(payload) ==
    LET op_name == payload.op
        failed(kind, msg) == Done(op_name, payload.user_id, Result(kind, msg),
                                  NoClaims, 0)
    IN  IF op_name = ""
        THEN failed("ValueError", "Operation 'op' not specified in payload")
        ELSE IF payload.info = NoClaims
        THEN failed("ValueError", "User info must be provided for authorization")
        ELSE IF op_name \in UserOpNames
        THEN Authorize(payload, "userdb", "users")
        ELSE Authorize(payload, payload.db, payload.coll)

\* route_query up to the call of the operation: where the request stands then
RouteOutcome(payload) ==
    LET op_name == payload.op
        failed(kind, msg) == Done(op_name, payload.user_id, Result(kind, msg),
                                  NoClaims, 0)
    IN  IF op_name = ""
        THEN failed("ValueError", "Operation 'op' not specified in payload")
        ELSE IF payload.info = NoClaims
        THEN failed("ValueError", "User info must be provided for authorization")
        ELSE IF op_name \in UserOpNames
        THEN Authorize(payload, "userdb", "users")
        ELSE IF op_name \in DataOpNames
        THEN IF payload.db = "" \/ payload.coll = ""
             THEN failed("ValueError", "Database and collection must be specified")
             ELSE Authorize(payload, payload.db, payload.coll)
        ELSE failed("ValueError", "Operation is not supported")

\* LoggingMiddleware.dispatch, up to call_next: a fresh log context
LoggingDispatch(self) ==
    /\ Free(self)
    /\ log_context' = [log_context EXCEPT ![self] = EmptyLogContext]
    /\ UNCHANGED <<storeVars, procs, ghostVars, evalVars, tokenVars>>

\* a route_query that names the action only once the request is dispatched
RouteQueryActionAtDispatch(self, payload, remember) ==
    /\ Free(self)
    /\ payload.op = "create_user" =>
          nonce + Cardinality({q \in Procs : procs[q].pc = "find_policy"}) < MaxCreates
    /\ payload.op \in {"insert_one", "insert_many"} =>
          DocCount + Cardinality({q \in Procs : procs[q].pc = "data_call"}) < MaxDocs
    /\ procs' = [procs EXCEPT ![self] = RouteOutcome(payload)]
    /\ log_context' = [log_context EXCEPT ![self] =
          IF RouteOutcome(payload).pc = "done" THEN @
          ELSE SetAction(@, payload.op)]
    /\ probe' = IF remember /\ probe = NoDecision THEN procs[self].decision
                ELSE probe
    /\ UNCHANGED <<storeVars, lifecycle, evalVars, tokenVars>>

\* `remember` is no input of the program: it says whether the history variable
\* keeps the decision of the request that came before this one
RouteQuery(self, payload, remember) ==
    /\ Free(self)
    /\ payload.op = "create_user" =>
          nonce + Cardinality({q \in Procs : procs[q].pc = "find_policy"}) < MaxCreates
    /\ payload.op \in {"insert_one", "insert_many"} =>
          DocCount + Cardinality({q \in Procs : procs[q].pc = "data_call"}) < MaxDocs
    /\ procs' = [procs EXCEPT ![self] = RouteOutcome(payload)]
    /\ log_context' = [log_context EXCEPT ![self] =
          IF payload.op = "" THEN @ ELSE SetAction(@, payload.op)]
    /\ probe' = IF remember /\ probe = NoDecision THEN procs[self].decision
                ELSE probe
    /\ UNCHANGED <<storeVars, lifecycle, evalVars, tokenVars>>

\* ------------------------------------------------------- Mongo.create_user
\* a create_user that lets the supplied grants stand for an administrator
CreateDocPermFirst(oid, user_id, hash, metadata, policy, perm) ==
    UserDoc(oid, user_id, hash, metadata, policy,
            IF perm.read # Absent THEN perm.read
            ELSE IF policy = "admin" THEN Str("all") ELSE Absent,
            IF perm.write # Absent THEN perm.write
            ELSE IF policy = "admin" THEN Str("all") ELSE Absent,
            Bool(policy = "admin"))

\* a create_user that fills an omitted axis of a non-administrator with "all"
CreateDocOmittedIsAll(oid, user_id, hash, metadata, policy, perm) ==
    UserDoc(oid, user_id, hash, metadata, policy,
            IF policy = "admin" \/ perm.read = Absent THEN Str("all") ELSE perm.read,
            IF policy = "admin" \/ perm.write = Absent THEN Str("all") ELSE perm.write,
            Bool(policy = "admin"))

\* the grants of the new document
CreateDoc(oid, user_id, hash, metadata, policy, perm) ==
    IF policy = "admin"
    THEN UserDoc(oid, user_id, hash, metadata, policy,
                 Str("all"), Str("all"), Bool(TRUE))
    ELSE UserDoc(oid, user_id, hash, metadata, policy,
                 perm.read, perm.write, Bool(FALSE))

\* policy_store.find_one, then the fresh key, its hash and the document
CreateFindPolicy(self) ==
    /\ At(self, "create_user", "find_policy")
    /\ LET me == procs[self]
           api_key == TokenUrlsafe(nonce + 1)
       IN  IF me.policy \notin policy_store
           THEN /\ procs' = [procs EXCEPT ![self] =
                      Raise(self, "PolicyNotFoundError", "Policy not found")]
                /\ UNCHANGED nonce
           ELSE /\ procs' = [procs EXCEPT ![self].pc = "insert_one",
                                          ![self].api_key = api_key,
                                          ![self].doc =
                                  CreateDoc(NewObjectId(nonce + 1), me.user_id,
                                            Hashpw(api_key), me.metadata,
                                            me.policy, me.perm)]
                /\ nonce' = nonce + 1
    /\ UNCHANGED <<users, cache, data, tokens, ghostVars, evalVars, tokenVars, log_context>>

\* an insert_one on a collection that lets two records share a user_id
CreateInsertOneUnchecked(self) ==
    /\ At(self, "create_user", "insert_one")
    /\ users' = users \cup {procs[self].doc}
    /\ lifecycle' = [lifecycle EXCEPT ![procs[self].user_id] = "modified"]
    /\ procs' = [procs EXCEPT ![self].pc = "cache_hset",
                               ![self].wrote = "inserted"]
    /\ UNCHANGED <<cache, data, nonce, tokens, probe, evalVars, tokenVars, log_context>>

\* 1. users.insert_one(doc); the unique index on user_id raises DuplicateKeyError
CreateInsertOne(self) ==
    /\ At(self, "create_user", "insert_one")
    /\ IF FindByUserId(procs[self].user_id) # {}
       THEN /\ procs' = [procs EXCEPT ![self] =
                  Raise(self, "DuplicateUserError", "User already exists")]
            /\ UNCHANGED <<users, lifecycle>>
       ELSE /\ users' = users \cup {procs[self].doc}
            /\ lifecycle' = [lifecycle EXCEPT ![procs[self].user_id] = "modified"]
            /\ procs' = [procs EXCEPT ![self].pc = "cache_hset",
                                       ![self].wrote = "inserted"]
    /\ UNCHANGED <<cache, data, nonce, tokens, probe, evalVars, tokenVars, log_context>>

\* 2. redis_client.hset(user_id, mapping=...); return api_key
CreateCacheHSet(self) ==
    /\ At(self, "create_user", "cache_hset")
    /\ cache' = [cache EXCEPT ![procs[self].user_id] =
                    HSet(CreateMapping(procs[self].doc))]
    /\ procs' = [procs EXCEPT ![self] =
          Returned(procs[self], "", Ok, NoClaims, procs[self].api_key)]
    /\ UNCHANGED <<users, data, nonce, tokens, ghostVars, evalVars, tokenVars, log_context>>

\* the hset raises a Redis error after the insert: `except Exception` turns it
\* into DatabaseError, the record stays and the key is not returned
CreateCacheHSetFails(self) ==
    /\ At(self, "create_user", "cache_hset")
    /\ procs' = [procs EXCEPT ![self] =
          Raise(self, "DatabaseError",
                "An unexpected error occurred during user creation")]
    /\ UNCHANGED <<storeVars, ghostVars, evalVars, tokenVars, log_context>>

\* ------------------------------------------------------- Mongo.delete_user
\* 1. collection.delete_one({"user_id": user_id}); the DocumentNotFoundError
\* raised inside the try block is caught by its `except Exception` clause
DeleteDeleteOne(self) ==
    /\ At(self, "delete_user", "delete_one")
    /\ LET found == FindByUserId(procs[self].user_id)
       IN  IF found = {}
           THEN /\ procs' = [procs EXCEPT ![self] =
                      Raise(self, "DatabaseError",
                            "An unexpected error occurred during user deletion")]
                /\ UNCHANGED <<users, lifecycle>>
           ELSE \E doc \in found :
                  /\ users' = users \ {doc}
                  /\ lifecycle' = [lifecycle EXCEPT ![procs[self].user_id] = "deleted"]
                  /\ procs' = [procs EXCEPT ![self].pc = "cache_delete",
                                             ![self].wrote = "deleted"]
    /\ UNCHANGED <<cache, data, nonce, tokens, probe, evalVars, tokenVars, log_context>>

\* delete_user returning without the delete of the cache entry
DeleteCacheDeleteSkipped(self) ==
    /\ At(self, "delete_user", "cache_delete")
    /\ procs' = [procs EXCEPT ![self] =
          Returned(procs[self], "", Ok, NoClaims, 0)]
    /\ UNCHANGED <<storeVars, ghostVars, evalVars, tokenVars, log_context>>

\* 2. redis_client.delete(user_id); return True
DeleteCacheDelete(self) ==
    /\ At(self, "delete_user", "cache_delete")
    /\ cache' = [cache EXCEPT ![procs[self].user_id] = NoKey]
    /\ procs' = [procs EXCEPT ![self] =
          [Returned(procs[self], "", Ok, NoClaims, 0) EXCEPT
              !.removed = IF cache[procs[self].user_id].exists THEN 1 ELSE 0]]
    /\ UNCHANGED <<users, data, nonce, tokens, ghostVars, evalVars, tokenVars, log_context>>

\* redis delete raises after the delete_one: `except Exception` turns it into
\* DatabaseError, the record is gone and the entry stays
DeleteCacheDeleteFails(self) ==
    /\ At(self, "delete_user", "cache_delete")
    /\ procs' = [procs EXCEPT ![self] =
          Raise(self, "DatabaseError",
                "An unexpected error occurred during user deletion")]
    /\ UNCHANGED <<storeVars, ghostVars, evalVars, tokenVars, log_context>>

\* ------------------------------------------------------- Mongo.update_user
\* a $set document in which the grants forced by "admin" win over permissions
BuildUpdatesForced(policy, permissions, old_role) ==
    LET changed == policy # "" /\ policy # old_role
        forced == changed /\ policy = "admin"
    IN  Updates(IF changed THEN Str(policy) ELSE Absent,
                IF forced THEN Bool(TRUE)
                ELSE IF changed /\ old_role = "admin" THEN Bool(FALSE)
                ELSE Absent,
                IF forced THEN Str("all")
                ELSE IF Truthy(permissions.read) THEN permissions.read ELSE Absent,
                IF forced THEN Str("all")
                ELSE IF Truthy(permissions.write) THEN permissions.write ELSE Absent)

\* a $set document that changes the role and the management flag alone
BuildUpdatesRoleOnly(policy, permissions, old_role) ==
    LET changed == policy # "" /\ policy # old_role
    IN  Updates(IF changed THEN Str(policy) ELSE Absent,
                IF changed /\ policy = "admin" THEN Bool(TRUE)
                ELSE IF changed /\ old_role = "admin" THEN Bool(FALSE)
                ELSE Absent,
                IF Truthy(permissions.read) THEN permissions.read ELSE Absent,
                IF Truthy(permissions.write) THEN permissions.write ELSE Absent)

\* the $set document built from policy and permissions
BuildUpdates(policy, permissions, old_role) ==
    LET changed == policy # "" /\ policy # old_role
        role == IF changed THEN Str(policy) ELSE Absent
        um == IF changed /\ policy = "admin" THEN Bool(TRUE)
              ELSE IF changed /\ old_role = "admin" THEN Bool(FALSE)
              ELSE Absent
        r0 == IF changed /\ policy = "admin" THEN Str("all") ELSE Absent
        w0 == IF changed /\ policy = "admin" THEN Str("all") ELSE Absent
    IN  Updates(role, um,
                IF Truthy(permissions.read) THEN permissions.read ELSE r0,
                IF Truthy(permissions.write) THEN permissions.write ELSE w0)

\* $set: every field of updates that is present replaces the document's
ApplySet(doc, updates) ==
    [doc EXCEPT
        !.role = IF updates.role.kind = "absent" THEN @ ELSE updates.role.s,
        !.user_management = IF updates.user_management.kind = "absent" THEN @
                            ELSE updates.user_management,
        !.read = IF updates.read.kind = "absent" THEN @ ELSE updates.read,
        !.write = IF updates.write.kind = "absent" THEN @ ELSE updates.write]

\* collection.find_one({"user_id": user_id}) and the local work on its result
UpdateFindUser(self) ==
    /\ At(self, "update_user", "find_user")
    /\ LET me == procs[self]
           found == FindByUserId(me.user_id)
       IN  IF found = {}
           THEN procs' = [procs EXCEPT ![self] =
                    Raise(self, "DocumentNotFoundError", "User not found for update")]
           ELSE IF PermissionsEmpty(me.perm) /\ me.policy = ""
           THEN procs' = [procs EXCEPT ![self] =
                    Returned(me, "", Ok, NoClaims, 0)]
           ELSE IF me.perm = NonePermissions
           THEN procs' = [procs EXCEPT ![self] =
                    Raise(self, "AttributeError",
                          "'NoneType' object has no attribute 'get'")]
           ELSE \E user_old_info \in found :
                    procs' = [procs EXCEPT ![self].pc = "update_one",
                                           ![self].updates =
                                  BuildUpdates(me.policy, me.perm, user_old_info.role)]
    /\ UNCHANGED <<storeVars, ghostVars, evalVars, tokenVars, log_context>>

\* an update_one followed by a refresh of the role in the user's cache entry
UpdateUpdateOneRefreshesCache(self) ==
    /\ At(self, "update_user", "update_one")
    /\ LET me == procs[self]
           found == FindByUserId(me.user_id)
       IN  IF found = {}
           THEN /\ procs' = [procs EXCEPT ![self] =
                      Raise(self, "DocumentNotFoundError", "User not found for update")]
                /\ UNCHANGED <<users, cache, lifecycle>>
           ELSE \E doc \in found :
                  /\ users' = (users \ {doc}) \cup {ApplySet(doc, me.updates)}
                  /\ cache' = [cache EXCEPT ![me.user_id] =
                        IF @.exists
                        THEN [@ EXCEPT !.role = Bytes(ApplySet(doc, me.updates).role)]
                        ELSE @]
                  /\ lifecycle' = [lifecycle EXCEPT ![me.user_id] = "modified"]
                  /\ procs' = [procs EXCEPT ![self] =
                        [Returned(me, "", Ok, NoClaims, 0) EXCEPT
                            !.updates = me.updates]]
    /\ UNCHANGED <<data, nonce, tokens, probe, evalVars, tokenVars, log_context>>

\* collection.update_one({"user_id": user_id}, {"$set": updates}); a server that
\* rejects an empty $set document answers with a write error (PyMongoError)
UpdateUpdateOne(self) ==
    /\ At(self, "update_user", "update_one")
    /\ LET me == procs[self]
           found == FindByUserId(me.user_id)
       IN  \E rejects_empty_set \in BOOLEAN :
           IF me.updates = NoUpdates /\ rejects_empty_set
           THEN /\ procs' = [procs EXCEPT ![self] =
                      Raise(self, "DatabaseError", "Failed to update user")]
                /\ UNCHANGED <<users, lifecycle>>
           ELSE IF found = {}
           THEN /\ procs' = [procs EXCEPT ![self] =
                      Raise(self, "DocumentNotFoundError", "User not found for update")]
                /\ UNCHANGED <<users, lifecycle>>
           ELSE \E doc \in found :
                  /\ users' = (users \ {doc}) \cup {ApplySet(doc, me.updates)}
                  /\ lifecycle' = [lifecycle EXCEPT ![me.user_id] = "modified"]
                  /\ procs' = [procs EXCEPT ![self] =
                        [Returned(me, "", Ok, NoClaims, 0) EXCEPT
                            !.updates = me.updates]]
    /\ UNCHANGED <<cache, data, nonce, tokens, probe, evalVars, tokenVars, log_context>>

\* ------------------------------------------------ the generic CRUD methods
\* the methods class Mongo defines; _data_op_map names a handler per operation
MongoMethods ==
    {"create_user", "delete_user", "update_user", "fetch_document",
     "update_document", "insert_document", "delete_document",
     "bulk_delete_documents", "bulk_fetch_documents", "bulk_update_documents",
     "bulk_insert_documents"}
DataOpMap(op_name) ==
    CASE op_name = "find_one" -> "fetch_document"
      [] op_name = "find" -> "bulk_fetch_documents"
      [] op_name = "count_documents" -> "count_documents"
      [] op_name = "insert_one" -> "insert_document"
      [] op_name = "insert_many" -> "bulk_insert_documents"
      [] op_name = "update_one" -> "update_document"
      [] op_name = "update_many" -> "bulk_update_documents"
      [] op_name = "delete_one" -> "delete_document"
      [] op_name = "delete_many" -> "bulk_delete_documents"
      [] OTHER -> ""

\* single-document handlers that act on every matching document
DataEffectAllMatching(handler, coll_docs, query, update) ==
    LET n == coll_docs[query]
    IN  CASE handler \in {"insert_document", "bulk_insert_documents"} ->
               [coll_docs EXCEPT ![query] = n + 1]
          [] handler \in {"update_document", "bulk_update_documents"}
             /\ update # query ->
               [coll_docs EXCEPT ![query] = 0, ![update] = @ + n]
          [] handler \in {"delete_document", "bulk_delete_documents"} ->
               [coll_docs EXCEPT ![query] = 0]
          [] OTHER -> coll_docs

\* the collection after the handler's one store call, and what the handler
\* returns or raises; a filter matches the documents equal to `query`
DataEffect(handler, coll_docs, query, update) ==
    LET n == coll_docs[query]
    IN  CASE handler = "insert_document" ->
               [coll_docs EXCEPT ![query] = n + 1]
          [] handler = "bulk_insert_documents" ->
               [coll_docs EXCEPT ![query] = n + 1]
          [] handler = "update_document" /\ n > 0 /\ update # query ->
               [coll_docs EXCEPT ![query] = n - 1, ![update] = @ + 1]
          [] handler = "bulk_update_documents" /\ update # query ->
               [coll_docs EXCEPT ![query] = 0, ![update] = @ + n]
          [] handler = "delete_document" /\ n > 0 ->
               [coll_docs EXCEPT ![query] = n - 1]
          [] handler = "bulk_delete_documents" ->
               [coll_docs EXCEPT ![query] = 0]
          [] OTHER -> coll_docs

DataResult(handler, coll_docs, query) ==
    IF handler \notin MongoMethods
    THEN Result("AttributeError", "'Mongo' object has no attribute")
    ELSE IF handler \in {"fetch_document", "update_document", "delete_document"}
            /\ coll_docs[query] = 0
    THEN Result("DocumentNotFoundError", "Document not found")
    ELSE Ok

\* handlers of the data operations built on the client of the identity store:
\* a delete_many on userdb.users removes the User Records
DataCallOnUserClient(self) ==
    /\ procs[self].pc = "data_call"
    /\ LET me == procs[self]
           t == <<me.db, me.coll>>
           handler == DataOpMap(me.op)
       IN  /\ users' = IF t = <<"userdb", "users">>
                          /\ handler = "bulk_delete_documents"
                       THEN {} ELSE users
           /\ data' = [data EXCEPT ![t] =
                  IF handler \in MongoMethods /\ t # <<"userdb", "users">>
                  THEN DataEffect(handler, data[t], me.query, me.update)
                  ELSE @]
           /\ procs' = [procs EXCEPT ![self] =
                  Returned(me, "", DataResult(handler, data[t], me.query),
                           NoClaims, 0)]
    /\ UNCHANGED <<cache, nonce, tokens, ghostVars, evalVars, tokenVars, log_context>>

\* the handler of a data operation runs its store call on the data client
DataCall(self) ==
    /\ procs[self].pc = "data_call"
    /\ LET me == procs[self]
           t == <<me.db, me.coll>>
           handler == DataOpMap(me.op)
       IN  /\ data' = [data EXCEPT ![t] =
                  IF handler \in MongoMethods
                  THEN DataEffect(handler, data[t], me.query, me.update)
                  ELSE @]
           /\ procs' = [procs EXCEPT ![self] =
                  Returned(me, "", DataResult(handler, data[t], me.query),
                           NoClaims, 0)]
    /\ UNCHANGED <<users, cache, nonce, tokens, ghostVars, evalVars, tokenVars, log_context>>

\* ------------------------------------------------- tokens presented in time
\* the clock advances
Tick ==
    /\ now < MaxTime
    /\ now' = now + 1
    /\ UNCHANGED <<storeVars, procs, ghostVars, evalVars, jwts, authz, log_context>>

\* what a client can present: a token the server issued, a string that is no
\* token, a token of its own making signed with another key, and an issued
\* token whose body it has changed (a later exp, the administrator's grants)
Forged ==
    {JwtEncode(JwtPayload(Claims("alice", "admin", "Ann", "bi",
                                 Permissions(Str("all"), Str("all"), Bool(TRUE))),
                          MaxTime + 1), OtherSecret)}
Tampered ==
    {[j EXCEPT !.body.exp = MaxTime + 1] : j \in jwts}
    \cup
    {[j EXCEPT !.body.permissions =
          JsonOfPermissions(Permissions(Str("all"), Str("all"), Bool(TRUE)))] :
        j \in jwts}
Presented == jwts \cup {Malformed} \cup Forged \cup (Tampered \ jwts)

\* one call of authorize_user, now
AuthorizeUserCall(jwt_token) ==
    /\ authz' = Authz(jwt_token, now, AuthorizeUser(jwt_token, now))
    /\ UNCHANGED <<storeVars, procs, ghostVars, evalVars, now, jwts, log_context>>

\* TokenData(**payload): the four fields of the claims; exp is dropped
TokenData(payload) == ClaimsOf(payload)

\* how a request with a bearer token ends before the router is called
Refused(request, status, detail) ==
    Done(request.op, request.user_id, Result(status, detail), NoClaims, 0)

\* a request path that looks the user up again and refuses a token whose
\* grants are no longer those of the user's record
DispatchRevoking(self, jwt_token, request) ==
    LET verdict == AuthorizeUser(jwt_token, now)
        current_user == TokenData(verdict.payload)
    IN  /\ Free(self)
        /\ IF verdict.result # Ok
              \/ \A d \in FindByUserId(current_user.user_id) :
                    ProjectPermissions(d) # current_user.permissions
           THEN /\ procs' = [procs EXCEPT ![self] =
                      Refused(request, "HTTP_401_UNAUTHORIZED",
                              "Could not validate credentials")]
                /\ UNCHANGED <<storeVars, ghostVars, evalVars, tokenVars, log_context>>
           ELSE RouteQuery(self, [request EXCEPT !.info = current_user], FALSE)

\* a delete endpoint that checks the management grant before it compares the
\* path user id with the caller's
DispatchPermissionFirst(self, jwt_token, request) ==
    LET verdict == AuthorizeUser(jwt_token, now)
        current_user == TokenData(verdict.payload)
    IN  /\ Free(self)
        /\ IF verdict.result # Ok
           THEN /\ procs' = [procs EXCEPT ![self] =
                      Refused(request, "HTTP_401_UNAUTHORIZED",
                              "Could not validate credentials")]
                /\ UNCHANGED <<storeVars, ghostVars, evalVars, tokenVars, log_context>>
           ELSE IF request.op \in UserOpNames
                   /\ ~Truthy(current_user.permissions.user_management)
           THEN /\ procs' = [procs EXCEPT ![self] =
                      Refused(request, "HTTP_403_FORBIDDEN",
                              "You do not have permission")]
                /\ UNCHANGED <<storeVars, ghostVars, evalVars, tokenVars, log_context>>
           ELSE IF request.op = "delete_user"
                   /\ request.user_id = current_user.user_id
           THEN /\ procs' = [procs EXCEPT ![self] =
                      Refused(request, "HTTP_400_BAD_REQUEST",
                              "Admins cannot delete themselves.")]
                /\ UNCHANGED <<storeVars, ghostVars, evalVars, tokenVars, log_context>>
           ELSE RouteQuery(self, [request EXCEPT !.info = current_user], FALSE)

\* a request with a bearer token: AuthContextMiddleware.dispatch decodes the
\* token, get_current_user answers 401 without a user, the delete endpoint
\* answers 400 to a caller naming itself, the user management endpoints answer
\* 403 without the management grant, and the endpoint hands the claims to
\* route_query as `info`
Dispatch(self, jwt_token, request) ==
    LET verdict == AuthorizeUser(jwt_token, now)
        current_user == TokenData(verdict.payload)
    IN  /\ Free(self)
        /\ IF verdict.result # Ok
           THEN /\ procs' = [procs EXCEPT ![self] =
                      Refused(request, "HTTP_401_UNAUTHORIZED",
                              "Could not validate credentials")]
                /\ UNCHANGED <<storeVars, ghostVars, evalVars, tokenVars, log_context>>
           ELSE IF request.op = "delete_user"
                   /\ request.user_id = current_user.user_id
           THEN /\ procs' = [procs EXCEPT ![self] =
                      Refused(request, "HTTP_400_BAD_REQUEST",
                              "Admins cannot delete themselves.")]
                /\ UNCHANGED <<storeVars, ghostVars, evalVars, tokenVars, log_context>>
           ELSE IF request.op \in UserOpNames
                   /\ ~Truthy(current_user.permissions.user_management)
           THEN /\ procs' = [procs EXCEPT ![self] =
                      Refused(request, "HTTP_403_FORBIDDEN",
                              "You do not have permission")]
                /\ UNCHANGED <<storeVars, ghostVars, evalVars, tokenVars, log_context>>
           ELSE RouteQuery(self, [request EXCEPT !.info = current_user], FALSE)

\* the Authorization header: absent (or empty), or a scheme word followed by
\* the credentials, as auth_header.split() yields them
Header(scheme, credentials) ==
    [present |-> TRUE, scheme |-> scheme, credentials |-> credentials]
NoHeader == [present |-> FALSE, scheme |-> "", credentials |-> <<>>]
\* str.lower() on the scheme words the clients send
Lower(word) ==
    CASE word \in {"Bearer", "BEARER", "bearer"} -> "bearer"
      [] word \in {"Basic", "basic"} -> "basic"
      [] OTHER -> word

\* a header test that takes the second word as the token whatever the first is
HasBearerTokenAnyScheme(auth_header) ==
    auth_header.present /\ Len(auth_header.credentials) = 1
\* len(parts) == 2 and parts[0].lower() == "bearer"
HasBearerToken(auth_header) ==
    /\ auth_header.present
    /\ Len(auth_header.credentials) = 1
    /\ Lower(auth_header.scheme) = "bearer"

\* a request as the application receives it: without a bearer token
\* request.state.user stays None and get_current_user answers 401
HeaderDispatch(self, auth_header, request) ==
    IF HasBearerToken(auth_header)
    THEN Dispatch(self, auth_header.credentials[1], request)
    ELSE /\ Free(self)
         /\ procs' = [procs EXCEPT ![self] =
               Refused(request, "HTTP_401_UNAUTHORIZED",
                       "Could not validate credentials")]
         /\ UNCHANGED <<storeVars, ghostVars, evalVars, tokenVars, log_context>>

\* ------------------------------------------------------------ specifications
NoMetadata == [name |-> "", department |-> ""]
Ann == [name |-> "Ann", department |-> "bi"]
SalesOrders == Dict([d \in {"sales"} |-> {"orders"}])

\* The concurrent system: NumProcs requests at a time authenticate, create and
\* delete users.  Its clients send few distinct arguments, so that every
\* interleaving of the store calls is explored.
RacePayloads ==
    {Payload("create_user", info, "", "", "alice", "analyst", Ann,
             Permissions(SalesOrders, Absent, Absent)) : info \in tokens}
    \cup
    {Payload("delete_user", info, "", "", "alice", "", NoMetadata, NoPermissions) :
        info \in tokens}
RaceKeyInputs == 1..(MaxCreates + 1)

Next ==
    \E self \in Procs :
        \/ \E user_id \in Users, api_key \in RaceKeyInputs :
              AuthStart(self, user_id, api_key)
        \/ AuthRedisExists(self)
        \/ AuthRedisHGetAll(self)
        \/ AuthMongoFindUser(self)
        \/ AuthRedisHSet(self)
        \/ AuthMongoFindPerms(self)
        \/ \E payload \in RacePayloads : RouteQuery(self, payload, FALSE)
        \/ CreateFindPolicy(self)
        \/ CreateInsertOne(self)
        \/ CreateCacheHSet(self)
        \/ DeleteDeleteOne(self)
        \/ DeleteCacheDelete(self)

Spec == Init /\ [][Next]_vars

\* One request at a time on the identity store, with the full range of
\* arguments: every policy, grants of every shape, right and wrong keys.
ReadInputs == {Absent, Str("none"), SalesOrders, Dict(EmptyMap)}
WriteInputs == {Absent, Str("all")}
SeqKeyInputs == 0..(MaxCreates + 1)

SeqPayloads ==
    {Payload("create_user", info, "", "", "alice", policy, Ann,
             Permissions(r, w, Absent)) :
        info \in tokens, policy \in {"admin", "analyst", "ghost"},
        r \in ReadInputs, w \in WriteInputs}
    \cup
    {Payload("update_user", info, "", "", "alice", policy, NoMetadata,
             Permissions(r, w, Absent)) :
        info \in tokens, policy \in {"", "admin", "analyst"},
        r \in ReadInputs, w \in WriteInputs}
    \cup
    {Payload("delete_user", info, "", "", "alice", "", NoMetadata, NoPermissions) :
        info \in tokens}

NextSeq ==
    \E self \in {1} :
        \/ \E user_id \in Users, api_key \in SeqKeyInputs :
              AuthStart(self, user_id, api_key)
        \/ AuthRedisExists(self)
        \/ AuthRedisHGetAll(self)
        \/ AuthMongoFindUser(self)
        \/ AuthRedisHSet(self)
        \/ AuthMongoFindPerms(self)
        \/ \E payload \in SeqPayloads : RouteQuery(self, payload, FALSE)
        \/ CreateFindPolicy(self)
        \/ CreateInsertOne(self)
        \/ CreateCacheHSet(self)
        \/ DeleteDeleteOne(self)
        \/ DeleteCacheDelete(self)
        \/ UpdateFindUser(self)
        \/ UpdateUpdateOne(self)

SpecSeq == Init /\ [][NextSeq]_vars

\* One request at a time through the router, with every operation name and
\* every target; the users' grants change between the requests.
RouteKeyInputs == {TokenUrlsafe(0), TokenUrlsafe(1)}
RoutePayloads ==
    {Payload("create_user", info, db, "", "alice", "analyst", Ann,
             Permissions(r, Absent, Absent)) :
        info \in tokens, db \in {"", "sales"}, r \in {SalesOrders, Str("none")}}
    \cup
    {Payload("update_user", info, "", "", "alice", "", NoMetadata,
             Permissions(r, w, Absent)) :
        info \in tokens, r \in {Absent, Str("all")}, w \in {Absent, Str("all")}}
    \cup
    {Payload("delete_user", info, "", "", "alice", "", NoMetadata, NoPermissions) :
        info \in tokens}
    \cup
    {DataPayload(op, info, db, coll, "x", "") :
        op \in (DataOpNames \ {"update_one", "update_many"}) \cup {"", "drop"},
        info \in tokens, db \in {"", "sales"}, coll \in Colls}
    \cup
    {DataPayload(op, info, "sales", coll, "x", "y") :
        op \in {"update_one", "update_many"}, info \in tokens, coll \in Colls}
    \cup
    {DataPayload(op, info, "sales", "", "x", "") :
        op \in {"find_one", "insert_one"}, info \in tokens}
    \cup
    {DataPayload(op, info, "userdb", "users", "x", "") :
        op \in {"find_one", "insert_one", "delete_many"}, info \in tokens}

NextRoute ==
    \E self \in {1} :
        \/ \E user_id \in Users, api_key \in RouteKeyInputs :
              AuthStart(self, user_id, api_key)
        \/ AuthRedisExists(self)
        \/ AuthRedisHGetAll(self)
        \/ AuthMongoFindUser(self)
        \/ AuthRedisHSet(self)
        \/ AuthMongoFindPerms(self)
        \/ \E payload \in RoutePayloads : RouteQuery(self, payload, FALSE)
        \/ CreateFindPolicy(self)
        \/ CreateInsertOne(self)
        \/ CreateCacheHSet(self)
        \/ DeleteDeleteOne(self)
        \/ DeleteCacheDelete(self)
        \/ UpdateFindUser(self)
        \/ UpdateUpdateOne(self)
        \/ DataCall(self)

SpecRoute == Init /\ [][NextRoute]_vars

\* One client and the data operations on one collection that already holds
\* documents: two that a filter "x" matches.
InitData ==
    /\ users = {RootDoc}
    /\ cache = [u \in Users |-> NoKey]
    /\ data = [t \in DataTargets |-> [v \in DocValues |->
                  IF t = <<"sales", "orders">> /\ v = "x" THEN 2 ELSE 0]]
    /\ nonce = 0
    /\ tokens = {}
    /\ procs = [p \in Procs |-> IdleProc]
    /\ lifecycle = [u \in Users |-> "pristine"]
    /\ probe = NoDecision
    /\ evalIn = NoEvalArgs
    /\ evalOut = NoResult
    /\ now = 0
    /\ jwts = {}
    /\ authz = NoAuthz
    /\ log_context = [p \in Procs |-> NoLogContext]

DataPayloads ==
    {DataPayload(op, info, "sales", "orders", query, "") :
        op \in DataOpNames \ {"update_one", "update_many"},
        info \in tokens, query \in DocValues}
    \cup
    {DataPayload(op, info, "sales", "orders", query, update) :
        op \in {"update_one", "update_many"}, info \in tokens,
        query \in DocValues, update \in DocValues}

NextData ==
    \E self \in {1} :
        \/ \E user_id \in Users, api_key \in RouteKeyInputs :
              AuthStart(self, user_id, api_key)
        \/ AuthRedisExists(self)
        \/ AuthRedisHGetAll(self)
        \/ AuthMongoFindUser(self)
        \/ AuthRedisHSet(self)
        \/ AuthMongoFindPerms(self)
        \/ \E payload \in DataPayloads : RouteQuery(self, payload, FALSE)
        \/ DataCall(self)

SpecData == InitData /\ [][NextData]_vars

\* One client behind the logging middleware: requests with and without a log
\* context, with and without claims, allowed, denied, invalid and unsupported.
LogPayloads ==
    {Payload("create_user", info, "", "", "alice", "analyst", Ann,
             Permissions(Str("none"), Absent, Absent)) : info \in tokens \cup {NoClaims}}
    \cup
    {Payload("delete_user", info, "", "", "alice", "", NoMetadata, NoPermissions) :
        info \in tokens}
    \cup
    {DataPayload(op, info, db, "orders", "x", "") :
        op \in {"find_one", "insert_one", "", "drop"},
        info \in tokens \cup {NoClaims}, db \in {"", "sales"}}

NextLog ==
    \E self \in {1} :
        \/ \E user_id \in Users, api_key \in RouteKeyInputs :
              AuthStart(self, user_id, api_key)
        \/ AuthRedisExists(self)
        \/ AuthRedisHGetAll(self)
        \/ AuthMongoFindUser(self)
        \/ AuthRedisHSet(self)
        \/ AuthMongoFindPerms(self)
        \/ LoggingDispatch(self)
        \/ \E payload \in LogPayloads : RouteQuery(self, payload, FALSE)
        \/ CreateFindPolicy(self)
        \/ CreateInsertOne(self)
        \/ CreateCacheHSet(self)
        \/ DeleteDeleteOne(self)
        \/ DeleteCacheDelete(self)
        \/ DataCall(self)

SpecLog == Init /\ [][NextLog]_vars

\* ------------------------- the Data Operations Layer: the document store fails
\* db.policy_store.find_one raises PyMongoError before the try block of
\* create_user is entered: nothing catches it
CreateFindPolicyFails(self) ==
    /\ At(self, "create_user", "find_policy")
    /\ procs' = [procs EXCEPT ![self] =
          Raise(self, "PyMongoError", "policy_store.find_one failed")]
    /\ UNCHANGED <<storeVars, ghostVars, evalVars, tokenVars, log_context>>

\* users.insert_one raises a PyMongoError other than DuplicateKeyError
CreateInsertOneFails(self) ==
    /\ At(self, "create_user", "insert_one")
    /\ procs' = [procs EXCEPT ![self] =
          Raise(self, "DatabaseError", "Failed to create user in DB")]
    /\ UNCHANGED <<storeVars, ghostVars, evalVars, tokenVars, log_context>>

\* collection.delete_one raises PyMongoError
DeleteDeleteOneFails(self) ==
    /\ At(self, "delete_user", "delete_one")
    /\ procs' = [procs EXCEPT ![self] =
          Raise(self, "DatabaseError", "Failed to delete user")]
    /\ UNCHANGED <<storeVars, ghostVars, evalVars, tokenVars, log_context>>

\* collection.find_one raises PyMongoError before the try block of update_user
\* is entered: nothing catches it
UpdateFindUserFails(self) ==
    /\ At(self, "update_user", "find_user")
    /\ procs' = [procs EXCEPT ![self] =
          Raise(self, "PyMongoError", "find_one failed")]
    /\ UNCHANGED <<storeVars, ghostVars, evalVars, tokenVars, log_context>>

\* collection.update_one raises PyMongoError
UpdateUpdateOneFails(self) ==
    /\ At(self, "update_user", "update_one")
    /\ procs' = [procs EXCEPT ![self] =
          Raise(self, "DatabaseError", "Failed to update user")]
    /\ UNCHANGED <<storeVars, ghostVars, evalVars, tokenVars, log_context>>

\* the store call of a CRUD method raises PyMongoError inside its try block
DataCallFails(self) ==
    /\ procs[self].pc = "data_call"
    /\ DataOpMap(procs[self].op) \in MongoMethods
    /\ procs' = [procs EXCEPT ![self] =
          Raise(self, "DatabaseError", "Failed to run the operation")]
    /\ UNCHANGED <<storeVars, ghostVars, evalVars, tokenVars, log_context>>

\* One client while the document stores may fail at any call of the layer
StoreFaultPayloads ==
    {Payload("create_user", info, "", "", "alice", "analyst", Ann,
             Permissions(SalesOrders, Absent, Absent)) : info \in tokens}
    \cup
    {Payload("update_user", info, "", "", "alice", "admin", NoMetadata,
             NoPermissions) : info \in tokens}
    \cup
    {Payload("delete_user", info, "", "", "alice", "", NoMetadata, NoPermissions) :
        info \in tokens}
    \cup
    {DataPayload(op, info, "sales", "orders", "x", "") :
        op \in {"find_one", "find", "insert_one", "delete_one"}, info \in tokens}

NextStoreFault ==
    \E self \in {1} :
        \/ \E user_id \in Users, api_key \in RouteKeyInputs :
              AuthStart(self, user_id, api_key)
        \/ AuthRedisExists(self)
        \/ AuthRedisHGetAll(self)
        \/ AuthMongoFindUser(self)
        \/ AuthRedisHSet(self)
        \/ AuthMongoFindPerms(self)
        \/ \E payload \in StoreFaultPayloads : RouteQuery(self, payload, FALSE)
        \/ CreateFindPolicy(self)
        \/ CreateFindPolicyFails(self)
        \/ CreateInsertOne(self)
        \/ CreateInsertOneFails(self)
        \/ CreateCacheHSet(self)
        \/ DeleteDeleteOne(self)
        \/ DeleteDeleteOneFails(self)
        \/ DeleteCacheDelete(self)
        \/ UpdateFindUser(self)
        \/ UpdateFindUserFails(self)
        \/ UpdateUpdateOne(self)
        \/ UpdateUpdateOneFails(self)
        \/ DataCall(self)
        \/ DataCallFails(self)

SpecStoreFault == Init /\ [][NextStoreFault]_vars

\* The same single client with few requests, and the history variable in use:
\* the grants of the records change between two decisions on the same claims.
ProbePayloads ==
    {Payload("create_user", info, "", "", "alice", "analyst", Ann,
             Permissions(SalesOrders, Absent, Absent)) : info \in tokens}
    \cup
    {Payload("update_user", info, "", "", "alice", "", NoMetadata,
             Permissions(Absent, Str("all"), Absent)) : info \in tokens}
    \cup
    {Payload("delete_user", info, "", "", "alice", "", NoMetadata, NoPermissions) :
        info \in tokens}
    \cup
    {DataPayload(op, info, "sales", coll, "x", "") :
        op \in {"find_one", "insert_one"}, info \in tokens, coll \in Colls}

NextProbe ==
    \E self \in {1} :
        \/ \E user_id \in Users, api_key \in RouteKeyInputs :
              AuthStart(self, user_id, api_key)
        \/ AuthRedisExists(self)
        \/ AuthRedisHGetAll(self)
        \/ AuthMongoFindUser(self)
        \/ AuthRedisHSet(self)
        \/ AuthMongoFindPerms(self)
        \/ \E payload \in ProbePayloads, remember \in BOOLEAN :
              RouteQuery(self, payload, remember)
        \/ CreateFindPolicy(self)
        \/ CreateInsertOne(self)
        \/ CreateCacheHSet(self)
        \/ DeleteDeleteOne(self)
        \/ DeleteCacheDelete(self)
        \/ UpdateFindUser(self)
        \/ UpdateUpdateOne(self)
        \/ DataCall(self)

SpecProbe == Init /\ [][NextProbe]_vars

\* One client while either store may fail at a call: the cache at its writes,
\* the durable store at the reads of authenticate_user.
FaultPayloads ==
    {Payload("create_user", info, "", "", "alice", "analyst", Ann,
             Permissions(SalesOrders, Absent, Absent)) : info \in tokens}
    \cup
    {Payload("delete_user", info, "", "", "alice", "", NoMetadata, NoPermissions) :
        info \in tokens}

NextFault ==
    \E self \in {1} :
        \/ \E user_id \in Users, api_key \in RouteKeyInputs :
              AuthStart(self, user_id, api_key)
        \/ AuthRedisExists(self)
        \/ AuthRedisHGetAll(self)
        \/ AuthMongoFindUser(self)
        \/ AuthMongoFindUserFails(self)
        \/ AuthRedisHSet(self)
        \/ AuthRedisHSetFails(self)
        \/ AuthMongoFindPerms(self)
        \/ AuthMongoFindPermsFails(self)
        \/ \E payload \in FaultPayloads : RouteQuery(self, payload, FALSE)
        \/ CreateFindPolicy(self)
        \/ CreateInsertOne(self)
        \/ CreateCacheHSet(self)
        \/ CreateCacheHSetFails(self)
        \/ DeleteDeleteOne(self)
        \/ DeleteCacheDelete(self)
        \/ DeleteCacheDeleteFails(self)

SpecFault == Init /\ [][NextFault]_vars

\* Concurrent creation: NumProcs administrators' requests at a time create the
\* same user, under a known and under an unknown policy; nobody deletes.
CreatePayloads ==
    {Payload("create_user", info, "", "", "alice", policy, Ann,
             Permissions(SalesOrders, Absent, Absent)) :
        info \in tokens, policy \in {"analyst", "ghost"}}

NextCreate ==
    \E self \in Procs :
        \/ \E user_id \in Users, api_key \in RaceKeyInputs :
              AuthStart(self, user_id, api_key)
        \/ AuthRedisExists(self)
        \/ AuthRedisHGetAll(self)
        \/ AuthMongoFindUser(self)
        \/ AuthRedisHSet(self)
        \/ AuthMongoFindPerms(self)
        \/ \E payload \in CreatePayloads : RouteQuery(self, payload, FALSE)
        \/ CreateFindPolicy(self)
        \/ CreateInsertOne(self)
        \/ CreateCacheHSet(self)

SpecCreate == Init /\ [][NextCreate]_vars

\* Tokens in time: one client logs in and creates a user, the clock advances,
\* and tokens, issued or not, are given to authorize_user.
JwtPayloads ==
    {Payload("create_user", info, "", "", "alice", "analyst", Ann,
             Permissions(SalesOrders, Absent, Absent)) : info \in tokens}

NextJwt ==
    \/ \E self \in {1} :
          \/ \E user_id \in Users, api_key \in RouteKeyInputs :
                AuthStart(self, user_id, api_key)
          \/ AuthRedisExists(self)
          \/ AuthRedisHGetAll(self)
          \/ AuthMongoFindUser(self)
          \/ AuthRedisHSet(self)
          \/ AuthMongoFindPerms(self)
          \/ \E payload \in JwtPayloads : RouteQuery(self, payload, FALSE)
          \/ CreateFindPolicy(self)
          \/ CreateInsertOne(self)
          \/ CreateCacheHSet(self)
    \/ Tick
    \/ \E jwt_token \in Presented : AuthorizeUserCall(jwt_token)

SpecJwt == Init /\ [][NextJwt]_vars

\* Tokens against the identity store: one client logs in, creates, updates
\* and deletes a user and reads the data store, each request carrying a token
\* issued earlier, while the clock advances.
RevokeRequests ==
    {Payload("create_user", NoClaims, "", "", "alice", "analyst", Ann,
             Permissions(SalesOrders, Absent, Absent)),
     Payload("update_user", NoClaims, "", "", "alice", "", NoMetadata,
             Permissions(Str("none"), Absent, Absent)),
     Payload("delete_user", NoClaims, "", "", "alice", "", NoMetadata, NoPermissions),
     DataPayload("find_one", NoClaims, "sales", "orders", "x", "")}

NextRevoke ==
    \/ \E self \in {1} :
          \/ \E user_id \in Users, api_key \in RouteKeyInputs :
                AuthStart(self, user_id, api_key)
          \/ AuthRedisExists(self)
          \/ AuthRedisHGetAll(self)
          \/ AuthMongoFindUser(self)
          \/ AuthRedisHSet(self)
          \/ AuthMongoFindPerms(self)
          \/ \E jwt_token \in jwts, request \in RevokeRequests :
                Dispatch(self, jwt_token, request)
          \/ CreateFindPolicy(self)
          \/ CreateInsertOne(self)
          \/ CreateCacheHSet(self)
          \/ UpdateFindUser(self)
          \/ UpdateUpdateOne(self)
          \/ DeleteDeleteOne(self)
          \/ DeleteCacheDelete(self)
          \/ DataCall(self)
    \/ Tick

SpecRevoke == Init /\ [][NextRevoke]_vars

\* The user endpoints: one client signs in as root or as alice and sends
\* create, update and delete requests with a token issued earlier. The body
\* of an update request names a policy alone (permissions is None) or names
\* permissions as well; a delete request names alice or root.
EndpointRequests ==
    {Payload("create_user", NoClaims, "", "", "alice", "analyst", Ann,
             Permissions(SalesOrders, Absent, Absent)),
     Payload("update_user", NoClaims, "", "", "alice", "admin", NoMetadata,
             NonePermissions),
     Payload("update_user", NoClaims, "", "", "alice", "", NoMetadata,
             NonePermissions),
     Payload("update_user", NoClaims, "", "", "alice", "admin", NoMetadata,
             Permissions(Absent, Str("all"), Absent)),
     Payload("delete_user", NoClaims, "", "", "alice", "", NoMetadata, NoPermissions),
     Payload("delete_user", NoClaims, "", "", "root", "", NoMetadata, NoPermissions)}

NextEndpoint ==
    \E self \in {1} :
        \/ \E user_id \in Users, api_key \in RouteKeyInputs :
              AuthStart(self, user_id, api_key)
        \/ AuthRedisExists(self)
        \/ AuthRedisHGetAll(self)
        \/ AuthMongoFindUser(self)
        \/ AuthRedisHSet(self)
        \/ AuthMongoFindPerms(self)
        \/ \E jwt_token \in jwts, request \in EndpointRequests :
              Dispatch(self, jwt_token, request)
        \/ CreateFindPolicy(self)
        \/ CreateInsertOne(self)
        \/ CreateCacheHSet(self)
        \/ UpdateFindUser(self)
        \/ UpdateUpdateOne(self)
        \/ DeleteDeleteOne(self)
        \/ DeleteCacheDelete(self)

SpecEndpoint == Init /\ [][NextEndpoint]_vars

\* Concurrent updates: NumProcs administrators' requests at a time create a
\* user and change its policy; nobody deletes.
UpdatePayloads ==
    {Payload("create_user", info, "", "", "alice", "analyst", Ann,
             Permissions(SalesOrders, Absent, Absent)) : info \in tokens}
    \cup
    {Payload("update_user", info, "", "", "alice", policy, NoMetadata,
             NoPermissions) : info \in tokens, policy \in {"admin", "ghost"}}

NextUpdate ==
    \E self \in Procs :
        \/ \E user_id \in {"root"}, api_key \in {TokenUrlsafe(0)} :
              AuthStart(self, user_id, api_key)
        \/ AuthRedisExists(self)
        \/ AuthRedisHGetAll(self)
        \/ AuthMongoFindUser(self)
        \/ AuthRedisHSet(self)
        \/ AuthMongoFindPerms(self)
        \/ \E payload \in UpdatePayloads : RouteQuery(self, payload, FALSE)
        \/ CreateFindPolicy(self)
        \/ CreateInsertOne(self)
        \/ CreateCacheHSet(self)
        \/ UpdateFindUser(self)
        \/ UpdateUpdateOne(self)

SpecUpdate == Init /\ [][NextUpdate]_vars

\* Requests as they arrive: one client logs in and sends requests to the
\* protected endpoints with every kind of Authorization header, while the
\* clock advances.
Headers ==
    {NoHeader, Header("Bearer", <<>>)}
    \cup
    {Header("Bearer", <<jwt_token>>) : jwt_token \in Presented}
    \cup
    {Header(scheme, <<jwt_token>>) :
        scheme \in {"bearer", "Basic"}, jwt_token \in jwts}
    \cup
    {Header("Bearer", <<jwt_token, jwt_token>>) : jwt_token \in jwts}
HeaderRequests ==
    {Payload("create_user", NoClaims, "", "", "alice", "analyst", Ann,
             Permissions(SalesOrders, Absent, Absent)),
     DataPayload("find_one", NoClaims, "sales", "orders", "x", ""),
     DataPayload("insert_one", NoClaims, "sales", "orders", "x", "")}

NextHeader ==
    \/ \E self \in {1} :
          \/ \E user_id \in Users, api_key \in RouteKeyInputs :
                AuthStart(self, user_id, api_key)
          \/ AuthRedisExists(self)
          \/ AuthRedisHGetAll(self)
          \/ AuthMongoFindUser(self)
          \/ AuthRedisHSet(self)
          \/ AuthMongoFindPerms(self)
          \/ \E auth_header \in Headers, request \in HeaderRequests :
                HeaderDispatch(self, auth_header, request)
          \/ CreateFindPolicy(self)
          \/ CreateInsertOne(self)
          \/ CreateCacheHSet(self)
          \/ DataCall(self)
    \/ Tick

SpecHeader == Init /\ [][NextHeader]_vars

NextEval == Evaluate

SpecEval == Init /\ [][NextEval]_vars

\* ============================================================== properties
\* ------------------------------------------------ the evaluator (SpecEval)
EvalCalled == evalOut # NoResult
EvalOpType == OpType(evalIn.op_name)
EvalGrant == Allowed(evalIn.user_info.permissions, EvalOpType)

\* C1: for a read or write operation the evaluator allows when the grant of
\* that axis is "all"; when the grant is a mapping it allows exactly when the
\* database is a key of the mapping and the collection is in that key's list;
\* when the grant is absent it refuses with a plain AuthorizationError.
C1_DecisionTable ==
    (EvalCalled /\ EvalOpType \in {"read", "write"}) =>
        /\ EvalGrant = Str("all") => evalOut = Ok
        /\ EvalGrant.kind = "dict" =>
              (evalOut = Ok <=>
                  /\ evalIn.db \in DOMAIN EvalGrant.map
                  /\ evalIn.coll \in EvalGrant.map[evalIn.db])
        /\ EvalGrant.kind = "absent" => evalOut.kind = "AuthorizationError"

\* a read refused although the collection is granted, in another database
C1_Witness ==
    /\ EvalCalled
    /\ evalIn.op_name = "find_one"
    /\ EvalGrant.kind = "dict"
    /\ evalIn.db \notin DOMAIN EvalGrant.map
    /\ \E d \in DOMAIN EvalGrant.map : evalIn.coll \in EvalGrant.map[d]
    /\ evalOut.kind = "AuthorizationError"

\* C2: when the grant of the axis is the literal "none", a read (write)
\* operation is refused with ExplicitDenyError whatever the target is, and the
\* same call with the grant absent is refused with another class of error,
\* the plain AuthorizationError.
C2_ExplicitDeny ==
    (EvalCalled /\ EvalOpType \in {"read", "write"} /\ EvalGrant = Str("none")) =>
        LET perms == evalIn.user_info.permissions
            without == IF EvalOpType = "read"
                       THEN [perms EXCEPT !.read = Absent]
                       ELSE [perms EXCEPT !.write = Absent]
            absentOut == ValidateAuth(evalIn.op_name, evalIn.db, evalIn.coll,
                            [evalIn.user_info EXCEPT !.permissions = without])
        IN  /\ evalOut.kind = "ExplicitDenyError"
            /\ absentOut.kind = "AuthorizationError"
            /\ absentOut.kind # evalOut.kind

\* a write refused explicitly although the other axis grants everything
C2_Witness ==
    /\ EvalCalled
    /\ evalIn.op_name = "insert_one"
    /\ evalIn.user_info.permissions.write = Str("none")
    /\ evalIn.user_info.permissions.read = Str("all")
    /\ evalOut.kind = "ExplicitDenyError"

\* --------------------------------------------------- the router (SpecRoute)
\* the positions inside the methods of the Data Operations Layer
DolPcs == {"find_policy", "insert_one", "cache_hset", "delete_one",
           "cache_delete", "find_user", "update_one", "data_call"}
DenyKinds == {"AuthorizationError", "ExplicitDenyError"}

\* what the policy grants, read from the claims alone
Covers(grant, db, coll) ==
    \/ grant = Str("all")
    \/ grant.kind = "dict" /\ db \in DOMAIN grant.map /\ coll \in grant.map[db]
Granted(op_name, db, coll, claims) ==
    CASE op_name \in UserOpNames ->
            db = "userdb" /\ coll = "users"
                /\ claims.permissions.user_management = Bool(TRUE)
      [] op_name \in ReadOpNames -> Covers(claims.permissions.read, db, coll)
      [] op_name \in WriteOpNames -> Covers(claims.permissions.write, db, coll)
      [] OTHER -> FALSE

\* C3: a request stands inside a method of the Data Operations Layer only if
\* the evaluator allowed its operation on its target for its claims; and the
\* step of route_query in which the evaluator refuses ends the call at once and
\* leaves the durable store, the cache and the data store as they were.
C3_ValidateBeforeDispatch ==
    /\ [](\A p \in Procs :
            procs[p].pc \in DolPcs =>
                /\ procs[p].decision.outcome = "ok"
                /\ Granted(procs[p].op, procs[p].db, procs[p].coll, procs[p].info))
    /\ [][\A p \in Procs :
            (procs'[p] # procs[p] /\ procs'[p].decision.outcome \in DenyKinds) =>
                /\ procs'[p].pc = "done"
                /\ procs'[p].result.kind \in DenyKinds
                /\ UNCHANGED <<users, cache, data, nonce, tokens>>]_vars

\* a read with a token whose read grant is a mapping has reached the store call
C3_Witness ==
    \E p \in Procs :
        /\ procs[p].pc = "data_call"
        /\ procs[p].op = "find_one"
        /\ procs[p].info.permissions.read.kind = "dict"
        /\ procs[p].decision.outcome = "ok"

\* ------------------------------------------- decisions in time (SpecProbe)
SameQuestion(d, e) ==
    d.cat = e.cat /\ d.db = e.db /\ d.coll = e.coll /\ d.grant = e.grant

\* C4: two decisions of the evaluator on the same operation category, database,
\* collection and grant value of the token have the same outcome, whatever the
\* stores hold when each is taken and whatever ran in between: the decision
\* remembered from an earlier request and the decision of the latest request
\* agree whenever they answer the same question.
C4_DecisionFromClaimsOnly ==
    \A p \in Procs :
        (/\ probe # NoDecision
         /\ procs[p].decision # NoDecision
         /\ SameQuestion(probe, procs[p].decision))
            => procs[p].decision.outcome = probe.outcome

\* a read was allowed on a mapping grant, the holder's record was then deleted,
\* and the same read with the same token is allowed again
C4_Witness ==
    \E p \in Procs :
        /\ probe.cat = "read" /\ probe.grant.kind = "dict" /\ probe.outcome = "ok"
        /\ procs[p].op = "find_one"
        /\ procs[p].info.user_id = "alice"
        /\ procs[p].pc = "data_call"
        /\ procs[p].decision = probe
        /\ FindByUserId("alice") = {}
        /\ lifecycle["alice"] = "deleted"

\* ------------------------------------------- authenticate_user (SpecSeq)
AuthDone(p) == procs[p].pc = "done" /\ procs[p].op = "authenticate_user"
GrantsOf(d) == [read |-> d.read, write |-> d.write,
                user_management |-> d.user_management]

\* C5: the step of authenticate_user that issues a token puts into it the
\* read, write and user_management grants which the durable record of that
\* user_id holds at that moment, whichever tier served the credential fields
\* and whatever create_user and update_user calls came before.
C5_TokenCarriesDurableGrants ==
    [][\A p \in Procs :
         (/\ At(p, "authenticate_user", "mongo_find_perms")
          /\ procs'[p].pc = "done"
          /\ procs'[p].result = Ok)
            => /\ procs'[p].ret \in tokens'
               /\ \E d \in FindByUserId(procs[p].user_id) :
                     procs'[p].ret.permissions = GrantsOf(d)]_vars

\* a token issued from cached credentials after update_user changed the role:
\* the role in the token is the cached one, the grants are the record's
C5_Witness ==
    \E p \in Procs, d \in FindByUserId("alice") :
        /\ AuthDone(p) /\ procs[p].user_id = "alice" /\ procs[p].result = Ok
        /\ procs[p].user_data.src = "cache"
        /\ procs[p].ret.role # d.role
        /\ procs[p].ret.permissions = GrantsOf(d)
        /\ lifecycle["alice"] = "modified"

\* C6: a call of authenticate_user that returned a token was given a key that
\* verifies against the hashed secret held for that user_id; a call given a key
\* that does not verify against it ended in AuthenticationError with no token.
C6_TokenOnlyIfKeyVerifies ==
    \A p \in Procs :
        AuthDone(p) =>
            LET u == procs[p].user_id
                key == procs[p].api_key
            IN  /\ procs[p].result = Ok =>
                      /\ cache[u].exists
                      /\ cache[u].api_key_hash = Hashpw(key)
                      /\ \E d \in FindByUserId(u) : d.api_key_hash = Hashpw(key)
                /\ (cache[u].exists /\ cache[u].api_key_hash # Hashpw(key)) =>
                      /\ procs[p].result.kind = "AuthenticationError"
                      /\ procs[p].ret = NoClaims
                /\ procs[p].ret # NoClaims => procs[p].result = Ok

\* alice presents the key of another user and is refused
C6_Witness ==
    \E p \in Procs :
        /\ AuthDone(p) /\ procs[p].user_id = "alice"
        /\ procs[p].api_key = TokenUrlsafe(0)
        /\ cache["alice"].exists
        /\ procs[p].result = Result("AuthenticationError", "Invalid API key provided")
        /\ procs[p].ret = NoClaims

\* -------------------------------------- authenticate_user in a race (Spec)
\* C7: when the cache had no entry for user_id and the durable store has no
\* record of it, the lookup ends the call in AuthenticationError, no token is
\* issued and the cache is left as it was.
C7_UnknownUserFails ==
    [][\A p \in Procs :
         (/\ At(p, "authenticate_user", "mongo_find_user")
          /\ procs'[p] # procs[p]
          /\ FindByUserId(procs[p].user_id) = {})
            => /\ procs'[p].pc = "done"
               /\ procs'[p].result.kind = "AuthenticationError"
               /\ procs'[p].ret = NoClaims
               /\ tokens' = tokens
               /\ cache' = cache]_vars

\* a call for a user never created has failed and there is still no entry
C7_Witness ==
    \E p \in Procs :
        /\ AuthDone(p) /\ procs[p].user_id = "alice"
        /\ procs[p].result = Result("AuthenticationError", "User not found")
        /\ lifecycle["alice"] = "pristine"
        /\ ~cache["alice"].exists
        /\ FindByUserId("alice") = {}
        /\ tokens = {}

\* C8: the permission lookup of authenticate_user ends the call in
\* AuthenticationError, with no token, when the durable store has no record
\* under the resolved role id; and from the moment delete_user has removed the
\* record of a user until create_user inserts one again, no step of a call of
\* authenticate_user for that user issues a token and every such call that
\* ends, ends in AuthenticationError, whether or not the cache holds an entry.
C8_NoTokenWithoutRecord ==
    [][\A p \in Procs :
         (procs'[p] # procs[p] /\ procs'[p].op = "authenticate_user") =>
            /\ (/\ At(p, "authenticate_user", "mongo_find_perms")
                /\ FindById(ObjectId(procs[p].user_data.role_id)) = {})
                  => /\ procs'[p].pc = "done"
                     /\ procs'[p].result.kind = "AuthenticationError"
                     /\ procs'[p].ret = NoClaims
                     /\ tokens' = tokens
            /\ lifecycle[procs'[p].user_id] = "deleted"
                  => /\ procs'[p].ret = NoClaims
                     /\ tokens' = tokens
                     /\ procs'[p].pc = "done" =>
                           procs'[p].result.kind = "AuthenticationError"]_vars

\* after the deletion a stale entry is in the cache; a call served from it
\* passed the key check and failed at the permission lookup
C8_Witness ==
    \E p \in Procs :
        /\ lifecycle["alice"] = "deleted"
        /\ cache["alice"].exists
        /\ AuthDone(p) /\ procs[p].user_id = "alice"
        /\ procs[p].user_data.src = "cache"
        /\ procs[p].result =
              Result("AuthenticationError", "Could not find permissions")
        /\ \A q \in Procs : procs[q].op # "delete_user"

\* no request is between two of its steps
Quiescent == \A p \in Procs : procs[p].pc \in {"idle", "done"}

\* C9: once every request in flight has completed, the cache holds an entry for
\* a user_id only if the durable store holds a record of that user_id, and the
\* hashed secret and the role id of the entry are those of the record.
C9_CacheConsistentWhenQuiescent ==
    Quiescent =>
        \A u \in Users :
            cache[u].exists =>
                \E d \in FindByUserId(u) :
                    /\ cache[u].api_key_hash = d.api_key_hash
                    /\ Decode(cache[u].role_id) = StrOfObjectId(d._id)

\* the credential fields of a record as the cache keeps them
Projection(d) ==
    [exists |-> TRUE, api_key_hash |-> d.api_key_hash,
     role_id |-> Bytes(ToString(d._id)), role |-> Bytes(d.role),
     name |-> Bytes(d.metadata.name), dept |-> Bytes(d.metadata.department)]

\* C10: while the record of a user has not been modified, whatever calls of
\* authenticate_user miss the cache and write to it, at once or in turn, the
\* entry of the cache, when there is one, is the projection of that record:
\* hashed secret, role id, role, name and dept.
C10_ConcurrentSelfHeal ==
    \A u \in Users :
        (lifecycle[u] = "pristine" /\ cache[u].exists) =>
            \E d \in FindByUserId(u) : cache[u] = Projection(d)

\* two calls for the same user both missed the cache, both wrote the entry and
\* both returned a token
C10_Witness ==
    /\ \A p \in Procs :
          /\ AuthDone(p) /\ procs[p].user_id = "root"
          /\ procs[p].user_data.src = "mongo"
          /\ procs[p].result = Ok
    /\ lifecycle["root"] = "pristine"
    /\ cache["root"].exists

\* ------------------------------------------ the credential lookup (SpecSeq)
\* the credential fields of a cache entry, read back as strings
EntryFields(e) ==
    [api_key_hash |-> e.api_key_hash, role_id |-> e.role_id.utf8,
     role |-> e.role.utf8, name |-> e.name.utf8, dept |-> e.dept.utf8]
ResolvedFields(ud) ==
    [api_key_hash |-> ud.api_key_hash, role_id |-> ud.role_id, role |-> ud.role,
     name |-> ud.name, dept |-> ud.dept]

\* C11: with one client, once the cache holds the entry of a user_id, a
\* credential lookup for it never stands at the durable store's find_one; what
\* a lookup resolved, from either tier, is what the entry holds, so the lookup
\* that healed the cache and the lookups after it resolve the same projection;
\* and no step of a lookup changes an entry that is there.
C11_LookupIdempotent ==
    /\ [](\A p \in Procs :
            LET u == procs[p].user_id
            IN  /\ At(p, "authenticate_user", "mongo_find_user") => ~cache[u].exists
                /\ At(p, "authenticate_user", "mongo_find_perms") =>
                      /\ cache[u].exists
                      /\ ResolvedFields(procs[p].user_data) = EntryFields(cache[u]))
    /\ [][\A p \in Procs :
            (/\ procs'[p] # procs[p]
             /\ procs[p].op = "authenticate_user"
             /\ procs[p].pc \notin {"idle", "done"}
             /\ cache[procs[p].user_id].exists)
                => /\ cache' = cache
                   /\ procs'[p].pc # "mongo_find_user"]_vars

\* root's entry exists only by a self-heal; a later lookup was served from it
\* and went on to return a token
C11_Witness ==
    \E p \in Procs :
        /\ AuthDone(p) /\ procs[p].user_id = "root"
        /\ procs[p].user_data.src = "cache"
        /\ procs[p].result = Ok
        /\ cache["root"].exists

\* ------------------------------------------- stores that fail (SpecFault)
\* C12: the write of a lookup that missed the cache and found the record puts
\* into the cache the record's hashed secret, role id, role, name and
\* department; and a lookup that finds the entry goes to hgetall, not to the
\* durable store, and resolves the fields of the entry or fails on them, but
\* never with the error of an unreachable durable store.
C12_SelfHealThenCacheServes ==
    [][\A p \in Procs :
         (procs'[p] # procs[p] /\ procs[p].op = "authenticate_user") =>
            LET u == procs[p].user_id
            IN  /\ (procs[p].pc = "redis_hset" /\ cache' # cache) =>
                      \E d \in FindByUserId(u) : cache'[u] = Projection(d)
                /\ (procs[p].pc = "redis_exists" /\ cache[u].exists) =>
                      procs'[p].pc = "redis_hgetall"
                /\ (procs[p].pc = "redis_hgetall" /\ cache[u].exists) =>
                      /\ procs'[p].result.kind # "DatabaseError"
                      /\ procs'[p].user_data.src = "cache"
                      /\ procs'[p].pc = "mongo_find_perms" =>
                            ResolvedFields(procs'[p].user_data) =
                                EntryFields(cache[u])]_vars

\* root's entry, written by a self-heal, has served a later lookup whose key
\* verified against it
C12_Witness ==
    \E p \in Procs :
        /\ At(p, "authenticate_user", "mongo_find_perms")
        /\ procs[p].user_id = "root"
        /\ procs[p].user_data.src = "cache"
        /\ cache["root"] = Projection(RootDoc)
        /\ tokens = {}

\* C13: a call of authenticate_user that found the record in the durable store
\* and was given the right key does not end with the error of the cache: a
\* failed self-heal write does not fail the call.
C13_SelfHealFailureTolerated ==
    \A p \in Procs :
        (/\ AuthDone(p)
         /\ procs[p].user_data.src = "mongo"
         /\ \E d \in FindByUserId(procs[p].user_id) :
               d.api_key_hash = Hashpw(procs[p].api_key))
            => procs[p].result.kind # "RedisError"

\* C14: a create_user call whose insert into the durable store succeeded ends
\* in success and returns the key, and a delete_user call whose delete from the
\* durable store succeeded ends in success, also when the cache call that
\* follows fails.
C14_CacheFailureTolerated ==
    \A p \in Procs :
        procs[p].pc = "done" =>
            /\ (procs[p].op = "create_user" /\ procs[p].wrote = "inserted") =>
                  procs[p].result = Ok /\ procs[p].api_key # 0
            /\ (procs[p].op = "delete_user" /\ procs[p].wrote = "deleted") =>
                  procs[p].result = Ok

\* ------------------------------------------ user management (SpecSeq)
\* a call the router dispatched to the Data Operations Layer, now finished
Finished(p, op) ==
    procs[p].pc = "done" /\ procs[p].op = op /\ procs[p].decision.outcome = "ok"

\* C15: a delete_user call for a user_id of which the durable store holds no
\* record, and which itself deleted none, ends in DocumentNotFoundError, and
\* then neither tier holds anything for that user_id, as before the call.
C15_DeleteMissingIsNotFound ==
    \A p \in Procs :
        (/\ Finished(p, "delete_user")
         /\ procs[p].wrote # "deleted"
         /\ FindByUserId(procs[p].user_id) = {})
            => /\ procs[p].result.kind = "DocumentNotFoundError"
               /\ ~cache[procs[p].user_id].exists

\* C16: delete_user deletes the record before it turns to the cache, and a
\* delete_user call that ended in success, with one client at work, leaves no
\* record and no cache entry of the user_id, whether redis delete found an
\* entry to remove or not.
C16_DeleteClearsBothTiers ==
    \A p \in Procs :
        LET u == procs[p].user_id
        IN  /\ At(p, "delete_user", "cache_delete") =>
                  FindByUserId(u) = {} /\ procs[p].wrote = "deleted"
            /\ (Finished(p, "delete_user") /\ procs[p].result = Ok) =>
                  /\ procs[p].wrote = "deleted"
                  /\ FindByUserId(u) = {}
                  /\ ~cache[u].exists

\* a successful delete_user of a user whose entry was not in the cache
C16_Witness ==
    \E p \in Procs :
        /\ Finished(p, "delete_user") /\ procs[p].result = Ok
        /\ procs[p].user_id = "alice"
        /\ procs[p].removed = 0
        /\ FindByUserId("alice") = {}
        /\ ~cache["alice"].exists

\* the record a create_user call has just inserted, while the call is on its
\* way to the cache
Inserted(p) == At(p, "create_user", "cache_hset")
RecordOf(u) == CHOOSE d \in FindByUserId(u) : TRUE

\* C17: the record that create_user inserted for policy "admin" has read "all",
\* write "all" and user_management true, whatever perm the caller supplied.
C17_AdminGrantsForced ==
    \A p \in Procs :
        (Inserted(p) /\ procs[p].policy = "admin") =>
            /\ Cardinality(FindByUserId(procs[p].user_id)) = 1
            /\ RecordOf(procs[p].user_id).role = "admin"
            /\ GrantsOf(RecordOf(procs[p].user_id)) =
                  [read |-> Str("all"), write |-> Str("all"),
                   user_management |-> Bool(TRUE)]

\* create_user("alice", "admin", ..., {"read": {"sales": ["orders"]}}) has inserted
C17_Witness ==
    \E p \in Procs :
        /\ Inserted(p) /\ procs[p].policy = "admin"
        /\ procs[p].perm.read = SalesOrders
        /\ procs[p].perm.write = Absent
        /\ RecordOf(procs[p].user_id).read = Str("all")

\* the operations of an axis of the grants
AxisOps(axis) == {op \in DataOpNames \cup UserOpNames : OpType(op) = axis}
DeniedByDefault(t, axis) ==
    \A op \in AxisOps(axis), db \in DBs, coll \in Colls :
        ValidateAuth(op, db, coll, t).kind = "AuthorizationError"

\* C18: the record that create_user inserted for a known policy other than
\* "admin" has user_management false and its read and write axes as perm gave
\* them, an axis missing from perm being unset in the record; and a token whose
\* claims lack an axis is refused every operation of that axis, on every
\* database and collection, with AuthorizationError.
C18_SuppliedGrantsStored ==
    /\ \A p \in Procs :
          (Inserted(p) /\ procs[p].policy \in policy_store \ {"admin"}) =>
              /\ Cardinality(FindByUserId(procs[p].user_id)) = 1
              /\ GrantsOf(RecordOf(procs[p].user_id)) =
                    [read |-> procs[p].perm.read, write |-> procs[p].perm.write,
                     user_management |-> Bool(FALSE)]
    /\ \A t \in tokens :
          /\ t.permissions.read = Absent => DeniedByDefault(t, "read")
          /\ t.permissions.write = Absent => DeniedByDefault(t, "write")

\* alice, created as analyst with a read grant and no write axis and not
\* updated since, holds a token: it has no write axis either
C18_Witness ==
    \E t \in tokens :
        /\ t.user_id = "alice" /\ t.role = "analyst"
        /\ FindByUserId("alice") # {}
        /\ GrantsOf(RecordOf("alice")) =
              [read |-> SalesOrders, write |-> Absent,
               user_management |-> Bool(FALSE)]
        /\ t.permissions = GrantsOf(RecordOf("alice"))
        /\ DeniedByDefault(t, "write")
        /\ ValidateAuth("find_one", "sales", "orders", t) = Ok

\* a create_user call that got past the policy check and has ended
CreateEnded(p, kind) ==
    /\ Finished(p, "create_user")
    /\ procs[p].user_id = "alice"
    /\ procs[p].result.kind = kind
\* the step in which the call of p ends with an error of this kind
EndsWith(p, kind) ==
    /\ procs[p].pc # "done"
    /\ procs'[p].pc = "done"
    /\ procs'[p].result.kind = kind

\* C19: create_user ends in PolicyNotFoundError when the policy is not in the
\* policy store, and in DuplicateUserError when a record of the user_id is
\* there at its insert; the step that ends so changes no record and no cache
\* entry.  Of the create_user calls for one user_id that passed the policy
\* check, at most one inserts and at most one has succeeded, and one that
\* ended in DuplicateUserError leaves the one record of an earlier insert, so
\* that of two racing calls exactly one succeeds; with nobody deleting or
\* updating, the cache entry of that user is the projection of that record.
C19_CreateFailuresAndRace ==
    /\ [][\A p \in Procs :
            /\ (At(p, "create_user", "find_policy") /\ procs'[p] # procs[p]) =>
                  (procs[p].policy \notin policy_store
                      <=> EndsWith(p, "PolicyNotFoundError"))
            /\ (At(p, "create_user", "insert_one") /\ procs'[p] # procs[p]) =>
                  (FindByUserId(procs[p].user_id) # {}
                      <=> EndsWith(p, "DuplicateUserError"))
            /\ (EndsWith(p, "PolicyNotFoundError")
                    \/ EndsWith(p, "DuplicateUserError")) =>
                  users' = users /\ cache' = cache]_vars
    /\ [](/\ Cardinality(FindByUserId("alice")) <= 1
          /\ Cardinality({p \in Procs : procs[p].user_id = "alice"
                                        /\ procs[p].wrote = "inserted"}) <= 1
          /\ Cardinality({p \in Procs : CreateEnded(p, "ok")}) <= 1
          /\ \A p \in Procs :
                CreateEnded(p, "DuplicateUserError") =>
                    Cardinality(FindByUserId("alice")) = 1
          /\ cache["alice"].exists =>
                /\ FindByUserId("alice") # {}
                /\ cache["alice"] = Projection(RecordOf("alice")))

\* two calls raced: the one that drew its key second inserted first and has
\* returned that key, the other ended in DuplicateUserError, and the cache
\* entry is the projection of the winner's record
C19_Witness ==
    \E p, q \in Procs :
        /\ CreateEnded(p, "ok")
        /\ procs[p].ret = NoClaims /\ procs[p].api_key = TokenUrlsafe(2)
        /\ CreateEnded(q, "DuplicateUserError")
        /\ RecordOf("alice")._id = NewObjectId(2)
        /\ cache["alice"] = Projection(RecordOf("alice"))

\* the step in which update_user's update_one changes the record d of the
\* user into d2, policy being a new role for that user
Switches(p, d, d2) ==
    /\ At(p, "update_user", "update_one")
    /\ procs'[p].pc = "done" /\ procs'[p].result = Ok
    /\ d \in users /\ d.user_id = procs[p].user_id
    /\ d2 \in users' /\ d2.user_id = procs[p].user_id
    /\ procs[p].policy # "" /\ procs[p].policy # d.role
Supplied(v, otherwise) == IF Truthy(v) THEN v ELSE otherwise

\* C20, as stated: an update_user whose policy differs from the user's role
\* sets the role to the policy; if the policy is "admin" the record then has
\* read "all", write "all" and user_management true; if the old role was
\* "admin" and the policy is another, it has user_management false.
C20_SwitchForcesGrants ==
    [][\A p \in Procs : \A d \in users : \A d2 \in users' :
          Switches(p, d, d2) =>
              /\ d2.role = procs[p].policy
              /\ procs[p].policy = "admin" =>
                    GrantsOf(d2) = [read |-> Str("all"), write |-> Str("all"),
                                    user_management |-> Bool(TRUE)]
              /\ (d.role = "admin" /\ procs[p].policy # "admin") =>
                    d2.user_management = Bool(FALSE)]_vars

\* C20, amended: the same, but an axis for which the call's permissions carry
\* a non-empty value holds that value afterwards, also when the policy is
\* "admin"; an axis without one holds "all" after a switch to "admin" and its
\* old value after a switch away from "admin".
C20_SwitchThenSuppliedGrants ==
    [][\A p \in Procs : \A d \in users : \A d2 \in users' :
          Switches(p, d, d2) =>
              /\ d2.role = procs[p].policy
              /\ procs[p].policy = "admin" =>
                    GrantsOf(d2) =
                        [read |-> Supplied(procs[p].perm.read, Str("all")),
                         write |-> Supplied(procs[p].perm.write, Str("all")),
                         user_management |-> Bool(TRUE)]
              /\ (d.role = "admin" /\ procs[p].policy # "admin") =>
                    GrantsOf(d2) =
                        [read |-> Supplied(procs[p].perm.read, d.read),
                         write |-> Supplied(procs[p].perm.write, d.write),
                         user_management |-> Bool(FALSE)]]_vars

\* update_user("alice", "admin", {"read": {"sales": ["orders"]}}) has made an
\* administrator of alice: the call wrote the role, and her read grant is the
\* one supplied
C20_Witness ==
    \E p \in Procs :
        /\ Finished(p, "update_user") /\ procs[p].result = Ok
        /\ procs[p].user_id = "alice"
        /\ procs[p].updates =
              Updates(Str("admin"), Bool(TRUE), SalesOrders, Str("all"))
        /\ FindByUserId("alice") # {}
        /\ RecordOf("alice").role = "admin"
        /\ GrantsOf(RecordOf("alice")) =
              [read |-> SalesOrders, write |-> Str("all"),
               user_management |-> Bool(TRUE)]

\* the step in which an update_user call on the record d of an existing user
\* ends, d2 being the record of that user afterwards
UpdateEnds(p, d, d2) ==
    /\ procs[p].op = "update_user" /\ procs[p].pc \in {"find_user", "update_one"}
    /\ procs'[p].pc = "done"
    /\ d \in users /\ d.user_id = procs[p].user_id
    /\ d2 \in users' /\ d2.user_id = procs[p].user_id
\* the policy of the call makes an administrator of the user
ToAdmin(p, d) == procs[p].policy = "admin" /\ d.role # "admin"

\* C21: when update_user on an existing user ends, an axis whose key is in
\* permissions, with whatever value, "all", "none", a mapping or the empty
\* mapping, holds that value in the record, with or without a policy in the
\* call; and an axis whose key is not there is as it was (unless the call made
\* an administrator of the user); a token with read "none" is explicitly denied
\* every read.
C21_SuppliedAxisOverwrites ==
    /\ [][\A p \in Procs : \A d \in users : \A d2 \in users' :
            UpdateEnds(p, d, d2) =>
                /\ procs[p].perm.read # Absent => d2.read = procs[p].perm.read
                /\ procs[p].perm.write # Absent => d2.write = procs[p].perm.write
                /\ (procs[p].perm.read = Absent /\ ~ToAdmin(p, d)) =>
                      d2.read = d.read
                /\ (procs[p].perm.write = Absent /\ ~ToAdmin(p, d)) =>
                      d2.write = d.write]_vars
    /\ [](\A t \in tokens :
            t.permissions.read = Str("none") =>
                \A op \in ReadOpNames, db \in DBs, coll \in Colls :
                    ValidateAuth(op, db, coll, t).kind = "ExplicitDenyError")

\* C22: no step of update_user changes the cache, so the entry of the updated
\* user stays as it was before the call; and a token issued from credentials
\* that the cache served has the role, name and dept of the cache entry and
\* the grants of the durable record as it is now.
C22_UpdateLeavesCache ==
    [][\A p \in Procs :
          /\ (procs[p].op = "update_user" /\ procs'[p] # procs[p]
                  /\ procs[p].pc \notin {"idle", "done"}) =>
                cache' = cache
          /\ (/\ At(p, "authenticate_user", "mongo_find_perms")
              /\ procs[p].user_data.src = "cache"
              /\ procs'[p].pc = "done" /\ procs'[p].result = Ok) =>
                LET e == cache[procs[p].user_id]
                    t == procs'[p].ret
                IN  /\ e.exists
                    /\ t.role = Decode(e.role)
                    /\ t.metadata = [name |-> Decode(e.name), dept |-> Decode(e.dept)]
                    /\ \E d \in FindByUserId(procs[p].user_id) :
                          t.permissions = GrantsOf(d)]_vars

\* alice was created as analyst and made an administrator by update_user; the
\* cache still calls her analyst, and so does her token, which carries the
\* administrator's grants
C22_Witness ==
    \E t \in tokens :
        /\ t.user_id = "alice" /\ t.role = "analyst"
        /\ cache["alice"].exists /\ Decode(cache["alice"].role) = "analyst"
        /\ FindByUserId("alice") # {}
        /\ RecordOf("alice").role = "admin"
        /\ t.permissions = GrantsOf(RecordOf("alice"))
        /\ t.permissions.user_management = Bool(TRUE)

\* ------------------------------------------------- tokens in time (SpecJwt)
\* the token that _create_jwt makes of these claims with this exp
Issued(t, exp) == JwtEncode(JwtPayload(t, exp), SERVER_SECRET)
Expiries == 0..(MaxTime + TokenLifetime)

\* C23: authorize_user, given before its expiry a token that _create_jwt
\* made, returns the user_id, role, metadata and permissions that were put
\* into it; and whatever authorize_user returns was put into a token by
\* _create_jwt.
C23_DecodeRecoversClaims ==
    /\ \A t \in tokens, exp \in Expiries :
          (Issued(t, exp) \in jwts /\ now < exp) =>
              /\ AuthorizeUser(Issued(t, exp), now).result = Ok
              /\ ClaimsOf(AuthorizeUser(Issued(t, exp), now).payload) = t
    /\ authz.verdict.result = Ok =>
          /\ authz.jwt_token \in jwts
          /\ ClaimsOf(authz.verdict.payload) \in tokens
          /\ authz.jwt_token = Issued(ClaimsOf(authz.verdict.payload),
                                      authz.verdict.payload.exp)

\* alice's token, decoded some time after it was issued: her read mapping, no
\* write axis, user_management false
C23_Witness ==
    /\ authz.verdict.result = Ok
    /\ authz.at > 0
    /\ authz.verdict.payload.user_id = "alice"
    /\ authz.verdict.payload.role = "analyst"
    /\ authz.verdict.payload.metadata = [name |-> "Ann", dept |-> "bi"]
    /\ authz.verdict.payload.permissions =
          Permissions(SalesOrders, Absent, Bool(FALSE))
    /\ ClaimsOf(authz.verdict.payload) \in tokens

Expired == Result("AuthenticationError", "Token has expired.")
\* the answer authorize_user gives, or gave, for an issued token at a time
InWindow(j, at, result) ==
    /\ at < j.body.exp => result = Ok
    /\ at > j.body.exp => result = Expired

\* C24: the token issued at time t has exp = t + 2 hours; authorize_user
\* accepts an issued token at every time before its exp and refuses it at
\* every time after with AuthenticationError "Token has expired."; a token
\* that is malformed or whose signature does not verify is refused with an
\* AuthenticationError of another reason, whatever its exp.
C24_TwoHourWindow ==
    /\ [][\A j \in jwts' \ jwts : j.body.exp = now + 2 * Hour]_vars
    /\ [](\A j \in jwts : InWindow(j, now, AuthorizeUser(j, now).result))
    /\ [](authz.verdict.result # NoResult =>
            IF authz.jwt_token \in jwts
            THEN InWindow(authz.jwt_token, authz.at, authz.verdict.result)
            ELSE /\ authz.verdict.result.kind = "AuthenticationError"
                 /\ authz.verdict.result # Expired)

\* an issued token was presented after its two hours and refused as expired
C24_Witness ==
    /\ authz.jwt_token \in jwts
    /\ authz.at > authz.jwt_token.body.exp
    /\ authz.jwt_token.body.exp = TokenLifetime
    /\ authz.verdict.result = Expired

\* ------------------------------------ tokens and the records (SpecRevoke)
\* the request of p has just been given to the router with these claims
Routed(p) ==
    /\ procs[p].pc \in {"idle", "done"}
    /\ procs'[p] # procs[p]
    /\ procs'[p].op \notin {"", "authenticate_user"}
    /\ procs'[p].result.kind \notin {"HTTP_400_BAD_REQUEST", "HTTP_401_UNAUTHORIZED",
                                     "HTTP_403_FORBIDDEN"}
\* the tokens of this user that are still within their window
Live(u) == {j \in jwts : j.body.user_id = u /\ now < j.body.exp}

\* C25: no token is taken back: a token once issued stays issued, and until
\* its exp authorize_user accepts it and returns the claims embedded at
\* issuance, whatever update_user and delete_user did to the user's record
\* since; the evaluator decides every request on the claims of such a token
\* alone; and a request that carries an issued token is turned away as
\* unauthenticated only when a token has run out.
C25_NoRevocation ==
    /\ [][jwts \subseteq jwts']_vars
    /\ [](\A j \in jwts :
            now < j.body.exp =>
                /\ AuthorizeUser(j, now).result = Ok
                /\ TokenData(AuthorizeUser(j, now).payload) \in tokens)
    /\ [][\A p \in Procs :
            Routed(p) =>
                \E j \in jwts :
                    LET info == TokenData(PayloadOfBody(j.body))
                        auth == ValidateAuth(procs'[p].op, procs'[p].decision.db,
                                             procs'[p].decision.coll, info)
                    IN  /\ now < j.body.exp
                        /\ info \in tokens
                        /\ procs'[p].decision.outcome = auth.kind
                        /\ IF auth = Ok
                           THEN procs'[p].pc # "done" /\ procs'[p].info = info
                           ELSE procs'[p].pc = "done" /\ procs'[p].result = auth]_vars
    /\ [][\A p \in Procs :
            (procs'[p] # procs[p]
                 /\ procs'[p].result.kind = "HTTP_401_UNAUTHORIZED") =>
                \E j \in jwts : j.body.exp <= now]_vars

\* alice's token, issued while her record granted the read of sales.orders,
\* has let her read there after update_user set her read grant to "none";
\* and so it does after delete_user removed her
C25_Witness ==
    \E p \in Procs :
        /\ procs[p].pc = "data_call" /\ procs[p].op = "find_one"
        /\ procs[p].info.user_id = "alice"
        /\ procs[p].info.permissions.read = SalesOrders
        /\ procs[p].decision.outcome = "ok"
        /\ \/ FindByUserId("alice") = {}
           \/ \E d \in FindByUserId("alice") : d.read = Str("none")

\* ------------------------------------- the evaluator, continued (SpecEval)
\* C26: for create_user, update_user and delete_user the evaluator allows
\* exactly when the user_management grant of the claims is true, and refuses
\* with AuthorizationError otherwise, whatever the read and write grants are:
\* "all" there allows nothing, "none" there denies nothing.
C26_ManagementByFlag ==
    (EvalCalled /\ evalIn.op_name \in UserOpNames) =>
        LET um == evalIn.user_info.permissions.user_management
        IN  /\ evalOut = Ok <=> um = Bool(TRUE)
            /\ um # Bool(TRUE) => evalOut.kind = "AuthorizationError"

\* delete_user refused to a caller who may read and write everything
C26_Witness ==
    /\ EvalCalled
    /\ evalIn.op_name = "delete_user"
    /\ evalIn.user_info.permissions =
          Permissions(Str("all"), Str("all"), Bool(FALSE))
    /\ evalOut.kind = "AuthorizationError"

\* the static table of the operation names, written out
StaticTable ==
    [create_user |-> "user_management", update_user |-> "user_management",
     delete_user |-> "user_management",
     find_one |-> "read", find |-> "read", count_documents |-> "read",
     insert_one |-> "write", insert_many |-> "write", update_one |-> "write",
     update_many |-> "write", delete_one |-> "write", delete_many |-> "write"]

\* C27: each of the twelve operation names is in exactly one list of
\* op_type_map, the category the evaluator finds for a name is the one of the
\* static table, and a name outside the table has none; a write operation is
\* decided on the write grant: it is allowed only if that grant is "all" or a
\* mapping that holds the target, whatever the read grant is.
C27_StaticCategories ==
    /\ DOMAIN StaticTable = UserOpNames \cup DataOpNames
    /\ \A op \in DOMAIN StaticTable :
          {c \in DOMAIN op_type_map : op \in op_type_map[c]} = {StaticTable[op]}
    /\ EvalCalled =>
          /\ evalIn.op_name \in DOMAIN StaticTable =>
                EvalOpType = StaticTable[evalIn.op_name]
          /\ evalIn.op_name \notin DOMAIN StaticTable =>
                EvalOpType = "" /\ evalOut.kind = "AuthorizationError"
          /\ (evalIn.op_name \in WriteOpNames /\ evalOut = Ok) =>
                LET w == evalIn.user_info.permissions.write
                IN  \/ w = Str("all")
                    \/ /\ w.kind = "dict"
                       /\ evalIn.db \in DOMAIN w.map
                       /\ evalIn.coll \in w.map[evalIn.db]

\* delete_many refused to a caller who may read everything and write nothing
C27_Witness ==
    /\ EvalCalled
    /\ evalIn.op_name = "delete_many"
    /\ evalIn.user_info.permissions.read = Str("all")
    /\ evalIn.user_info.permissions.write = Absent
    /\ evalOut.kind = "AuthorizationError"

\* ------------------------------------------ the router, continued (SpecRoute)
\* a payload route_query must turn away before it asks the evaluator
Invalid(payload) ==
    \/ payload.op = ""
    \/ payload.op \notin UserOpNames \cup DataOpNames
    \/ payload.op \in DataOpNames /\ (payload.db = "" \/ payload.coll = "")

\* C28: route_query ends a request whose operation name is empty or is none
\* of the twelve names, and a data operation without database or collection,
\* in ValueError before the evaluator is asked; and the step of a request that
\* ends in ValueError leaves the identity store, the cache and the data store
\* as they were.
C28_InvalidRequestRejected ==
    /\ [](\A payload \in RoutePayloads :
            Invalid(payload) =>
                /\ RouteOutcome(payload).pc = "done"
                /\ RouteOutcome(payload).result.kind = "ValueError"
                /\ RouteOutcome(payload).decision = NoDecision)
    /\ [][\A p \in Procs :
            (procs'[p] # procs[p] /\ procs'[p].result.kind = "ValueError") =>
                /\ procs[p].pc \in {"idle", "done"}
                /\ procs'[p].pc = "done"
                /\ procs'[p].decision = NoDecision
                /\ UNCHANGED <<users, cache, data, nonce, tokens>>]_vars

\* a find_one without its database or collection was sent with a token and
\* turned away
C28_Witness ==
    \E p \in Procs :
        /\ procs[p].pc = "done"
        /\ procs[p].op = "find_one"
        /\ procs[p].result =
              Result("ValueError", "Database and collection must be specified")
        /\ procs[p].decision = NoDecision
        /\ tokens # {}

\* C29: a user management operation is decided for database "userdb" and
\* collection "users" whatever the payload names, and its steps leave the data
\* store as it was; the steps of a data operation leave the User Records, the
\* cache, the key counter and the tokens as they were, also when the operation
\* names userdb.users, which it then finds on the data client.
C29_StoresKeptApart ==
    /\ [](\A p \in Procs :
            (procs[p].op \in UserOpNames /\ procs[p].decision # NoDecision) =>
                procs[p].decision.db = "userdb" /\ procs[p].decision.coll = "users")
    /\ [][\A p \in Procs :
            (procs'[p] # procs[p] /\ procs[p].pc \in DolPcs) =>
                IF procs[p].op \in UserOpNames
                THEN data' = data
                ELSE /\ procs[p].op \in DataOpNames
                     /\ UNCHANGED <<users, cache, nonce, tokens>>]_vars

\* a delete_many and an insert_one on userdb.users, allowed by the caller's
\* "all" grants, have run on the data client: the document is there and the
\* User Records are as before
C29_Witness ==
    \E p \in Procs :
        /\ procs[p].pc = "done" /\ procs[p].op = "delete_many"
        /\ procs[p].result = Ok
        /\ procs[p].decision.db = "userdb" /\ procs[p].decision.coll = "users"
        /\ RootDoc \in users
        /\ cache["root"].exists

\* C30: a count_documents request that the evaluator allowed for the caller's
\* read grant ends with the count of the matching documents, as every other
\* operation name of the static table ends with its handler's result: the
\* name has a handler among the methods of the Data Operations Layer.
C30_CountReturnsNumber ==
    \A p \in Procs :
        ( /\ procs[p].pc = "done" /\ procs[p].op = "count_documents"
          /\ procs[p].decision.outcome = "ok" ) =>
            /\ DataOpMap(procs[p].op) \in MongoMethods
            /\ procs[p].result = Ok

\* the handlers of the single-document operations
SingleDocHandlers == {"fetch_document", "update_document", "delete_document"}

C32_StoreFaultsAreDatabaseErrors ==
    \A p \in Procs :
        (procs[p].pc = "done" /\ procs[p].op \in UserOpNames \cup DataOpNames) =>
            procs[p].result.kind # "PyMongoError"

\* the ways route_query rejects a request after it has read the operation name
RejectedAfterName(r) ==
    \/ r = Result("ValueError", "User info must be provided for authorization")
    \/ r = Result("ValueError", "Operation is not supported")
    \/ r.kind \in DenyKinds

\* C33: while an operation of a request with a log context is with the Data
\* Operations Layer, the "action" slot of the context holds the operation's
\* name, and it holds it from the step of route_query on; the slot is set as
\* well in the step that rejects the request for missing claims, by the
\* evaluator or as unsupported.
C33_ActionSetBeforeDispatch ==
    /\ [](\A p \in Procs :
            (log_context[p].has /\ procs[p].pc \in DolPcs) =>
                log_context[p].action = procs[p].op)
    /\ [][\A p \in Procs :
            ( /\ Free(p) /\ procs'[p] # procs[p] /\ log_context[p].has
              /\ procs'[p].op # "authenticate_user" ) =>
                /\ procs'[p].pc \in DolPcs =>
                      log_context'[p].action = procs'[p].op
                /\ (procs'[p].pc = "done" /\ RejectedAfterName(procs'[p].result)) =>
                      log_context'[p].action = procs'[p].op]_vars

\* a request with a log context was denied by the evaluator and the slot names
\* its operation
C33_Witness ==
    \E p \in Procs :
        /\ procs[p].pc = "done" /\ procs[p].op = "find_one"
        /\ procs[p].result.kind \in DenyKinds
        /\ log_context[p] = SetAction(EmptyLogContext, "find_one")

\* a header that carries no token the server issued and that is still within
\* its window
BadHeader(h) ==
    \/ ~h.present
    \/ Lower(h.scheme) # "bearer"
    \/ Len(h.credentials) # 1
    \/ h.credentials[1] \notin jwts
    \/ h.credentials[1].body.exp <= now
\* the step is the answer 401 and nothing else
Only401(p) ==
    /\ procs'[p].pc = "done"
    /\ procs'[p].result.kind = "HTTP_401_UNAUTHORIZED"
    /\ procs'[p].decision = NoDecision
    /\ UNCHANGED <<storeVars, log_context>>

\* C34: a request whose Authorization header is absent, is not "Bearer
\* <token>", or carries a token that is expired, malformed, forged or changed
\* is answered 401 in a step that neither asks the evaluator nor touches a
\* store; and whenever a request is handed to route_query, its claims are
\* those of an issued token that has not expired.
C34_OnlyVerifiedClaimsRouted ==
    /\ [][\A p \in Procs :
            (Free(p) /\ procs'[p] # procs[p] /\ procs'[p].op # "authenticate_user") =>
                \A h \in Headers, request \in HeaderRequests :
                    ( /\ request.op = procs'[p].op
                      /\ BadHeader(h)
                      /\ HeaderDispatch(p, h, request) ) => Only401(p)]_vars
    /\ [][\A p \in Procs :
            ( /\ Free(p) /\ procs'[p] # procs[p]
              /\ procs'[p].op \notin {"", "authenticate_user"}
              /\ procs'[p].result.kind # "HTTP_401_UNAUTHORIZED" ) =>
                \E j \in jwts :
                    /\ now < j.body.exp
                    /\ TokenData(PayloadOfBody(j.body)) \in tokens
                    /\ procs'[p].pc # "done" =>
                          procs'[p].info = TokenData(PayloadOfBody(j.body))]_vars

\* a token was issued and has run out, and the request that carried it was
\* answered 401 with the stores as they were at the start
C34_Witness ==
    \E p \in Procs, j \in jwts :
        /\ j.body.exp <= now
        /\ procs[p].pc = "done" /\ procs[p].op = "insert_one"
        /\ procs[p].result.kind = "HTTP_401_UNAUTHORIZED"
        /\ DocCount = 0 /\ users = {RootDoc}

C36_AdminHasAllGrants ==
    \A d \in users :
        d.role = "admin" => d.read = Str("all") /\ d.write = Str("all")

\* the axis of the new record is "all", or the update_user call that wrote
\* the record supplied it, or the record was an administrator's before and
\* the call left the axis alone
AxisAccounted(d, axis) ==
    \/ d[axis] = Str("all")
    \/ \E p \in Procs :
          /\ At(p, "update_user", "update_one")
          /\ procs[p].user_id = d.user_id
          /\ Truthy(procs[p].perm[axis])
          /\ d[axis] = procs[p].perm[axis]
    \/ \E old \in users :
          /\ old._id = d._id /\ old.role = "admin"
          /\ old[axis] = d[axis]

\* C36, amended: a record that create_user wrote with role "admin", or that
\* update_user switched to "admin", has read "all" and write "all" on every
\* axis for which the update_user call supplied no grant; an axis of an
\* administrator's record differs from "all" only by a grant that an
\* update_user call supplied.
C36_AdminAllUnlessSupplied ==
    [][\A d \in users' \ users :
          d.role = "admin" =>
              AxisAccounted(d, "read") /\ AxisAccounted(d, "write")]_vars

\* an update_user call has made alice an administrator who reads
\* sales.orders alone
C36_Witness ==
    \E p \in Procs, d \in users :
        /\ procs[p].pc = "done" /\ procs[p].op = "update_user"
        /\ procs[p].result = Ok
        /\ procs[p].updates.role = Str("admin")
        /\ d.user_id = "alice" /\ d.role = "admin"
        /\ d.read = SalesOrders /\ d.write = Str("all")

\* C37: the role of every User Record is the name of a policy in the policy
\* store.
C37_RoleIsKnownPolicy ==
    \A d \in users : d.role \in policy_store

\* C38: an update request that names a policy and omits permissions, for a
\* user who exists, goes on to write the role: its read of the user's record
\* is followed by the update_one of the role, not by an error.
C38_PolicyOnlyUpdateSucceeds ==
    [][\A p \in Procs :
          /\ At(p, "update_user", "find_user")
          /\ procs[p].perm = NonePermissions
          /\ procs[p].policy # ""
          /\ FindByUserId(procs[p].user_id) # {}
          /\ procs'[p] # procs[p]
          => /\ procs'[p].pc = "update_one"
             /\ procs'[p].updates.role \in {Absent, Str(procs[p].policy)}]_vars

\* the caller named by an unexpired token of correct signature
Caller(jwt_token) == TokenData(AuthorizeUser(jwt_token, now).payload)
DeleteOfSelf(jwt_token, request) ==
    /\ AuthorizeUser(jwt_token, now).result = Ok
    /\ request.op = "delete_user"
    /\ request.user_id = Caller(jwt_token).user_id

\* C39: a delete request whose path user id is the user_id of the caller's
\* token ends with 400 in the step that receives it, without a question to
\* the evaluator and without a change of the stores, the cache or the log
\* context, whatever the token's grants are; and no delete_one of a
\* delete_user call removes the record of the call's own caller.
C39_NoSelfDelete ==
    /\ [][\A p \in Procs, jwt_token \in jwts, request \in EndpointRequests :
             /\ Free(p) /\ procs'[p] # procs[p]
             /\ DeleteOfSelf(jwt_token, request)
             /\ Dispatch(p, jwt_token, request)
             => /\ procs'[p].pc = "done"
                /\ procs'[p].result.kind = "HTTP_400_BAD_REQUEST"
                /\ procs'[p].decision = NoDecision
                /\ UNCHANGED <<storeVars, evalVars, log_context>>]_vars
    /\ [][\A p \in Procs :
             At(p, "delete_user", "delete_one") /\ users' # users
             => procs[p].info.user_id # procs[p].user_id]_vars

\* alice, who holds no management grant, asked for her own deletion, got 400
\* and is still there; root asked for root's deletion at another time
C39_Witness ==
    \E p \in Procs, d \in users :
        /\ procs[p].pc = "done" /\ procs[p].op = "delete_user"
        /\ procs[p].user_id = "alice"
        /\ procs[p].result.kind = "HTTP_400_BAD_REQUEST"
        /\ d.user_id = "alice" /\ d.user_management = Bool(FALSE)
        /\ \E j \in jwts : j.body.user_id = "alice"

====
